---------------------------- MODULE Spec2Model ----------------------------
(***************************************************************************)
(* CreditWatch: benefit-window resolution and usage accounting.            *)
(*                                                                         *)
(* The model follows backend/app/crud.py and backend/app/main.py.          *)
(*                                                                         *)
(* A datetime.date is an integer key (year*12 + month-1)*31 + (day-1); the *)
(* integer order of the keys is the order of the dates, so the code's      *)
(* date comparisons are integer comparisons.  Amounts are whole numbers.   *)
(* Python's None is the value None (-1) for an optional number or date,    *)
(* the empty tuple for an optional list or label.                          *)
(***************************************************************************)
EXTENDS Integers, Sequences, FiniteSets, Bags, TLC

VARIABLES
    card,         \* the CreditCard row: fee_due_date (month, day), year_tracking_mode
    benefit,      \* the Benefit row
    redemptions,  \* the BenefitRedemption rows of the benefit: a bag of [amount, occurred_on]
    exclusions,   \* the BenefitWindowExclusion rows of the benefit
    today,        \* date.today()
    lastOp,       \* the handler that ran last
    usedVia,      \* how is_used came to its value: "sync", "manual", "overwritten", "none"
    response,     \* the BenefitRead the last handler returned, if it returned one
    calc          \* inputs and results of the calendar functions (SpecCal)

vars == <<card, benefit, redemptions, exclusions, today, lastOp, usedVia, response, calc>>

None == -1
NoLabel == <<>>
NoValues == <<>>
NoResponse == [kind |-> "none"]
ErrorResponse == [kind |-> "error"]

-----------------------------------------------------------------------------
(* Bounds                                                                  *)

FirstYear == 2023
LastYear == 2025
MaxRedemptions == 2
MaxExclusions == 1

-----------------------------------------------------------------------------
(* datetime.date                                                           *)

MkDate(y, m, d) == (y * 12 + (m - 1)) * 31 + (d - 1)
DYear(dt) == dt \div 372
DMonth(dt) == ((dt \div 31) % 12) + 1
DDay(dt) == (dt % 31) + 1

IsLeap(y) == (y % 4 = 0) /\ ((y % 100 # 0) \/ (y % 400 = 0))

\* calendar.monthrange(year, month)[1]
MonthRange(y, m) ==
    IF m = 2 THEN (IF IsLeap(y) THEN 29 ELSE 28)
    ELSE IF m \in {4, 6, 9, 11} THEN 30 ELSE 31

IsDate(y, m, d) == m \in 1..12 /\ d >= 1 /\ d <= MonthRange(y, m)

\* value - timedelta(days=1)
MinusOneDay(dt) ==
    IF DDay(dt) > 1 THEN MkDate(DYear(dt), DMonth(dt), DDay(dt) - 1)
    ELSE IF DMonth(dt) > 1
         THEN MkDate(DYear(dt), DMonth(dt) - 1, MonthRange(DYear(dt), DMonth(dt) - 1))
         ELSE MkDate(DYear(dt) - 1, 12, 31)

Min(a, b) == IF a <= b THEN a ELSE b
Max(a, b) == IF a >= b THEN a ELSE b

-----------------------------------------------------------------------------
(* Calendar arithmetic, crud.py                                            *)

crud_safe_day(year, month, day) == Min(day, MonthRange(year, month))

crud_compute_cycle_bounds_LT(c, mode, reference) ==
    IF mode = "anniversary"
    THEN LET due_month == c.due_month
             due_day == c.due_day
             y == DYear(reference)
             first_end == MkDate(y, due_month, crud_safe_day(y, due_month, due_day))
             cycle_end == IF first_end < reference
                          THEN MkDate(y + 1, due_month, crud_safe_day(y + 1, due_month, due_day))
                          ELSE first_end
             cycle_start == MkDate(DYear(cycle_end) - 1, due_month,
                                   crud_safe_day(DYear(cycle_end) - 1, due_month, due_day))
         IN  <<cycle_start, cycle_end>>
    ELSE <<MkDate(DYear(reference), 1, 1), MkDate(DYear(reference) + 1, 1, 1)>>

crud_compute_cycle_bounds(c, mode, reference) ==
    IF mode = "anniversary"
    THEN LET due_month == c.due_month
             due_day == c.due_day
             y == DYear(reference)
             first_end == MkDate(y, due_month, crud_safe_day(y, due_month, due_day))
             cycle_end == IF first_end <= reference
                          THEN MkDate(y + 1, due_month, crud_safe_day(y + 1, due_month, due_day))
                          ELSE first_end
             cycle_start == MkDate(DYear(cycle_end) - 1, due_month,
                                   crud_safe_day(DYear(cycle_end) - 1, due_month, due_day))
         IN  <<cycle_start, cycle_end>>
    ELSE <<MkDate(DYear(reference), 1, 1), MkDate(DYear(reference) + 1, 1, 1)>>

crud_add_months(value, months) ==
    LET month_index == DMonth(value) - 1 + months
        year == DYear(value) + (month_index \div 12)
        month == (month_index % 12) + 1
        day == crud_safe_day(year, month, DDay(value))
    IN  MkDate(year, month, day)

-----------------------------------------------------------------------------
(* Calendar arithmetic, main.py                                            *)

main_safe_day(year, month, day) == Min(day, MonthRange(year, month))

main_add_months(value, months) ==
    LET month_index == DMonth(value) - 1 + months
        year == DYear(value) + (month_index \div 12)
        month == (month_index % 12) + 1
        day == main_safe_day(year, month, DDay(value))
    IN  MkDate(year, month, day)

main_compute_cycle_bounds(c, mode, reference) ==
    IF mode = "anniversary"
    THEN LET due_month == c.due_month
             due_day == c.due_day
             y == DYear(reference)
             first_end == MkDate(y, due_month, main_safe_day(y, due_month, due_day))
             cycle_end == IF first_end <= reference
                          THEN MkDate(y + 1, due_month, main_safe_day(y + 1, due_month, due_day))
                          ELSE first_end
             cycle_start == MkDate(DYear(cycle_end) - 1, due_month,
                                   main_safe_day(DYear(cycle_end) - 1, due_month, due_day))
         IN  <<cycle_start, cycle_end>>
    ELSE <<MkDate(DYear(reference), 1, 1), MkDate(DYear(reference) + 1, 1, 1)>>

-----------------------------------------------------------------------------
(* Window enumerator, main.py                                              *)

Frequencies == {"monthly", "quarterly", "semiannual", "yearly"}

\* months_map.get(frequency); 0 stands for a frequency the map lacks
main_months_map(frequency) ==
    CASE frequency = "monthly" -> 1
      [] frequency = "quarterly" -> 3
      [] frequency = "semiannual" -> 6
      [] frequency = "yearly" -> 12
      [] OTHER -> 0

\* A label is the tuple of the format's name and the numbers strftime prints.
main_format_range_label(window_start, window_end) ==
    LET inclusive_end == MinusOneDay(window_end)
    IN  IF DYear(window_start) = DYear(inclusive_end)
        THEN <<"range", DMonth(window_start), DDay(window_start),
               DMonth(inclusive_end), DDay(inclusive_end)>>
        ELSE <<"range-years", DMonth(window_start), DDay(window_start), DYear(window_start),
               DMonth(inclusive_end), DDay(inclusive_end), DYear(inclusive_end)>>

main_format_frequency_label(frequency, index, window_start, window_end, is_calendar_year) ==
    LET inclusive_end == MinusOneDay(window_end)
    IN  CASE frequency = "monthly" ->
               IF is_calendar_year
               THEN <<"%b", DMonth(window_start)>>
               ELSE <<"(%b %d - %b %d)", DMonth(window_start), DDay(window_start),
                      DMonth(inclusive_end), DDay(inclusive_end)>>
          [] frequency = "quarterly" ->
               IF is_calendar_year
               THEN <<"(Q: %b - %b)", index, DMonth(window_start), DMonth(inclusive_end)>>
               ELSE <<"(Q: %b %d - %b %d)", index, DMonth(window_start), DDay(window_start),
                      DMonth(inclusive_end), DDay(inclusive_end)>>
          [] frequency = "semiannual" ->
               IF is_calendar_year
               THEN <<"(H: %b - %b)", index, DMonth(window_start), DMonth(inclusive_end)>>
               ELSE <<"(H: %b %d - %b %d)", index, DMonth(window_start), DDay(window_start),
                      DMonth(inclusive_end), DDay(inclusive_end)>>
          [] frequency = "yearly" ->
               IF is_calendar_year
               THEN <<"%Y", DYear(window_start)>>
               ELSE <<"(%m/%d/%Y - %m/%d/%Y)",
                      DMonth(window_start), DDay(window_start), DYear(window_start),
                      DMonth(inclusive_end), DDay(inclusive_end), DYear(inclusive_end)>>
          [] OTHER -> main_format_range_label(window_start, window_end)

\* the while loop of _enumerate_frequency_windows
RECURSIVE main_enumerate_loop_NoCap(_, _, _, _, _, _)
main_enumerate_loop_NoCap(cursor, index, cycle_end, months, frequency, is_calendar_year) ==
    IF cursor < cycle_end
    THEN LET window_end == main_add_months(cursor, months)
             window == [start |-> cursor,
                        end |-> window_end,
                        label |-> main_format_frequency_label(
                                      frequency, index, cursor, window_end, is_calendar_year),
                        index |-> index]
         IN  <<window>> \o main_enumerate_loop_NoCap(window_end, index + 1, cycle_end, months,
                                                     frequency, is_calendar_year)
    ELSE <<>>

RECURSIVE main_enumerate_loop(_, _, _, _, _, _)
main_enumerate_loop(cursor, index, cycle_end, months, frequency, is_calendar_year) ==
    IF cursor < cycle_end
    THEN LET stepped == main_add_months(cursor, months)
             window_end == IF stepped > cycle_end THEN cycle_end ELSE stepped
             window == [start |-> cursor,
                        end |-> window_end,
                        label |-> main_format_frequency_label(
                                      frequency, index, cursor, window_end, is_calendar_year),
                        index |-> index]
         IN  <<window>> \o main_enumerate_loop(window_end, index + 1, cycle_end, months,
                                               frequency, is_calendar_year)
    ELSE <<>>

main_enumerate_frequency_windows(cycle_start, cycle_end, frequency, is_calendar_year) ==
    LET months == main_months_map(frequency)
    IN  IF months = 0
        THEN <<[start |-> cycle_start, end |-> cycle_end,
                label |-> main_format_range_label(cycle_start, cycle_end), index |-> 1]>>
        ELSE LET windows == main_enumerate_loop(cycle_start, 1, cycle_end, months,
                                                frequency, is_calendar_year)
             IN  IF windows = <<>>
                 THEN <<[start |-> cycle_start, end |-> cycle_end,
                         label |-> main_format_frequency_label(
                                       frequency, 1, cycle_start, cycle_end, is_calendar_year),
                         index |-> 1]>>
                 ELSE windows


-----------------------------------------------------------------------------
(* The calendar functions on their own: SpecCal draws a card, a mode and a  *)
(* reference date (or a cycle), then applies the functions.                *)

SampleDays == {1, 15, 28, 29, 30, 31}

\* fee_due_date is a real date: Feb 29 comes from a leap year
CalAnchors == {a \in (1..12) \X SampleDays : IsDate(2024, a[1], a[2])}

CalDates ==
    {MkDate(a[1], a[2], a[3]) :
        a \in {x \in (FirstYear..LastYear) \X (1..12) \X SampleDays : IsDate(x[1], x[2], x[3])}}

Modes == {"calendar", "anniversary"}

DefaultCard == [due_month |-> 8, due_day |-> 15, year_tracking_mode |-> "calendar"]
DefaultToday == MkDate(2024, 5, 20)

DefaultBenefit ==
    [type |-> "standard", frequency |-> "monthly", value |-> 0, expected_value |-> None,
     window_values |-> NoValues, window_tracking_mode |-> "none",
     expiration_date |-> None, is_used |-> FALSE, used_at |-> None]

CalIdle == [phase |-> "idle", source |-> "none", cycle |-> <<None, None>>,
            crud_cycle |-> <<None, None>>, frequency |-> "none", windows |-> <<>>]

InitCal ==
    /\ benefit = DefaultBenefit
    /\ redemptions = EmptyBag
    /\ exclusions = {}
    /\ lastOp = "init"
    /\ usedVia = "none"
    /\ response = NoResponse
    /\ \/ /\ \E a \in CalAnchors, m \in Modes :
                card = [due_month |-> a[1], due_day |-> a[2], year_tracking_mode |-> m]
          /\ today \in CalDates
          /\ calc = [CalIdle EXCEPT !.phase = "input", !.source = "card"]
       \/ /\ card \in {[DefaultCard EXCEPT !.year_tracking_mode = m] : m \in Modes}
          /\ today = DefaultToday
          /\ \E s \in CalDates, e \in CalDates :
                /\ s < e
                /\ calc = [CalIdle EXCEPT !.phase = "cycle", !.source = "any",
                                          !.cycle = <<s, e>>, !.crud_cycle = <<s, e>>]

\* _compute_cycle_bounds(card, mode, reference), in crud.py and in main.py
CalComputeCycleBounds ==
    /\ calc.phase = "input"
    /\ calc' = [calc EXCEPT
                   !.phase = "cycle",
                   !.cycle = main_compute_cycle_bounds(card, card.year_tracking_mode, today),
                   !.crud_cycle = crud_compute_cycle_bounds(card, card.year_tracking_mode, today)]
    /\ UNCHANGED <<card, benefit, redemptions, exclusions, today, lastOp, usedVia, response>>

\* _enumerate_frequency_windows(cycle_start, cycle_end, frequency, is_calendar_year)
CalEnumerateWindows ==
    /\ calc.phase = "cycle"
    /\ \E f \in Frequencies :
          calc' = [calc EXCEPT
                     !.phase = "windows",
                     !.frequency = f,
                     !.windows = main_enumerate_frequency_windows(
                                     calc.cycle[1], calc.cycle[2], f,
                                     card.year_tracking_mode = "calendar")]
    /\ UNCHANGED <<card, benefit, redemptions, exclusions, today, lastOp, usedVia, response>>

NextCal == CalComputeCycleBounds \/ CalEnumerateWindows

SpecCal == InitCal /\ [][NextCal]_vars


-----------------------------------------------------------------------------
(* Claims about the calendar functions (SpecCal)                           *)

\* tests/shared.py WINDOW_COUNT_BY_FREQUENCY
ExpectedWindowCount(frequency) ==
    CASE frequency = "monthly" -> 12
      [] frequency = "quarterly" -> 4
      [] frequency = "semiannual" -> 2
      [] frequency = "yearly" -> 1

AnchorIn(c, mode, year) ==
    IF mode = "anniversary"
    THEN MkDate(year, c.due_month, Min(c.due_day, MonthRange(year, c.due_month)))
    ELSE MkDate(year, 1, 1)

CycleIsOneYearAround(cycle, c, mode, reference) ==
    /\ cycle[1] <= reference
    /\ reference < cycle[2]
    /\ (DYear(cycle[2]) * 12 + DMonth(cycle[2])) - (DYear(cycle[1]) * 12 + DMonth(cycle[1])) = 12
    /\ cycle[1] = AnchorIn(c, mode, DYear(cycle[1]))
    /\ cycle[2] = AnchorIn(c, mode, DYear(cycle[1]) + 1)

\* C1: for every card (any fee-due month/day, Feb 29 and days 29-31 included),
\* both modes and every reference date R, _compute_cycle_bounds (crud.py and
\* main.py) returns (start, end) with start <= R < end, and end is the anchor
\* month/day of the year after start's, each clamped to its month's last day:
\* twelve calendar months later.
C1_CycleContainsReference ==
    (calc.source = "card" /\ calc.phase \in {"cycle", "windows"}) =>
        /\ CycleIsOneYearAround(calc.cycle, card, card.year_tracking_mode, today)
        /\ CycleIsOneYearAround(calc.crud_cycle, card, card.year_tracking_mode, today)

\* a Feb 29 anchor, the reference on the clamped anchor day of a common year
C1_Witness ==
    /\ calc.source = "card"
    /\ calc.phase = "cycle"
    /\ card.year_tracking_mode = "anniversary"
    /\ card.due_month = 2
    /\ card.due_day = 29
    /\ today = MkDate(2023, 2, 28)
    /\ calc.cycle = <<MkDate(2023, 2, 28), MkDate(2024, 2, 29)>>
    /\ calc.crud_cycle = calc.cycle

\* C2: for every cycle (start < end) and every frequency the enumerated
\* windows are contiguous and do not overlap: the first starts at cycle_start,
\* each window's end is the next window's start, every window has
\* start < end, and the last ends at cycle_end.
C2_WindowsPartitionCycle ==
    (calc.phase = "windows") =>
        LET w == calc.windows
            n == Len(w)
        IN  /\ n >= 1
            /\ w[1].start = calc.cycle[1]
            /\ w[n].end = calc.cycle[2]
            /\ \A i \in 1..n : w[i].start < w[i].end
            /\ \A i \in 1..(n - 1) : w[i].end = w[i + 1].start

\* a last window that the enumerator cut short at cycle_end
C2_Witness ==
    /\ calc.phase = "windows"
    /\ calc.frequency = "quarterly"
    /\ Len(calc.windows) >= 2
    /\ LET last == calc.windows[Len(calc.windows)]
       IN  /\ last.end = calc.cycle[2]
           /\ main_add_months(last.start, 3) > calc.cycle[2]

\* C3: for every cycle produced by _compute_cycle_bounds the enumerator yields
\* exactly 12 windows for monthly, 4 for quarterly, 2 for semiannual and 1 for
\* yearly, indexed 1..n in chronological order.
C3_WindowCountByFrequency ==
    (calc.source = "card" /\ calc.phase = "windows") =>
        LET w == calc.windows
        IN  /\ Len(w) = ExpectedWindowCount(calc.frequency)
            /\ \A i \in 1..Len(w) : w[i].index = i
            /\ \A i \in 1..(Len(w) - 1) : w[i].start < w[i + 1].start


-----------------------------------------------------------------------------
(* Redemption aggregator, crud.py                                          *)

RECURSIVE BagTotals(_, _)
BagTotals(B, kinds) ==
    IF kinds = {} THEN <<0, 0>>
    ELSE LET k == CHOOSE x \in kinds : TRUE
             rest == BagTotals(B, kinds \ {k})
         IN  <<rest[1] + k.amount * B[k], rest[2] + B[k]>>

crud_redemption_summary_ClosedEnd(reds, start_date, end_date) ==
    BagTotals(reds, {k \in DOMAIN reds :
                        /\ (start_date # None => k.occurred_on >= start_date)
                        /\ (end_date # None => k.occurred_on <= end_date)})

\* redemption_summary_for_benefits(session, [benefit.id], start_date, end_date),
\* with .get(benefit.id, (0.0, 0)) applied: <<total, count>>
crud_redemption_summary(reds, start_date, end_date) ==
    BagTotals(reds, {k \in DOMAIN reds :
                        /\ (start_date # None => k.occurred_on >= start_date)
                        /\ (end_date # None => k.occurred_on < end_date)})

-----------------------------------------------------------------------------
(* Window resolution for the usage sync, crud.py                           *)

NoMode == "none"

\* benefit.window_tracking_mode or card.year_tracking_mode
EffectiveMode(c, b) ==
    IF b.window_tracking_mode # NoMode THEN b.window_tracking_mode ELSE c.year_tracking_mode

\* months_map.get(benefit.frequency) in _resolve_window_bounds; 0 for a missing key
crud_months_map(frequency) ==
    CASE frequency = "monthly" -> 1
      [] frequency = "quarterly" -> 3
      [] frequency = "semiannual" -> 6
      [] OTHER -> 0

RECURSIVE crud_window_loop(_, _, _, _)
crud_window_loop(cursor, index, cycle_end, months) ==
    IF cursor < cycle_end
    THEN LET stepped == crud_add_months(cursor, months)
             window_end == IF stepped > cycle_end THEN cycle_end ELSE stepped
         IN  <<<<cursor, window_end, index>>>>
                 \o crud_window_loop(window_end, index + 1, cycle_end, months)
    ELSE <<>>

crud_window_matches_exclusion(window_start, window_end, window_index, exclusion) ==
    \/ (exclusion.window_index # None /\ exclusion.window_index # 0
            /\ exclusion.window_index = window_index)
    \/ (exclusion.window_start = window_start /\ exclusion.window_end = window_end)

\* active_windows of _resolve_window_bounds: the windows no exclusion matches
crud_active_windows(windows, excl) ==
    LET Active(w) == ~ \E e \in excl : crud_window_matches_exclusion(w[1], w[2], w[3], e)
    IN  SelectSeq(windows, Active)

\* the end of _resolve_window_bounds: the cycle when no window is active, the
\* active window holding the reference, else the last active window
crud_select_active_window(active_windows, cycle, reference) ==
    LET Holds(w) == w[1] <= reference /\ reference < w[2]
        holding == SelectSeq(active_windows, Holds)
    IN  IF active_windows = <<>> THEN <<cycle[1], cycle[2], 1>>
        ELSE IF holding # <<>> THEN holding[1]
        ELSE active_windows[Len(active_windows)]

\* _resolve_window_bounds after cycle_start, cycle_end = _compute_cycle_bounds(...)
crud_resolve_window_in_cycle(b, excl, reference, cycle) ==
    IF b.frequency = "yearly" THEN <<cycle[1], cycle[2], 1>>
    ELSE IF crud_months_map(b.frequency) = 0 THEN <<cycle[1], cycle[2], 1>>
    ELSE crud_select_active_window(
             crud_active_windows(
                 crud_window_loop(cycle[1], 1, cycle[2], crud_months_map(b.frequency)), excl),
             cycle, reference)

\* _resolve_window_bounds(session, card, benefit, reference): <<start, end, index>>
crud_resolve_window_bounds(c, b, excl, reference) ==
    crud_resolve_window_in_cycle(
        b, excl, reference, crud_compute_cycle_bounds(c, EffectiveMode(c, b), reference))

crud_resolve_window_target_FlatValue(b, window_index) ==
    IF b.value # None THEN b.value ELSE 0

\* _resolve_window_target(benefit, window_index)
crud_resolve_window_target(b, window_index) ==
    LET wi == IF window_index <= 0 THEN 1 ELSE window_index
        window_values == b.window_values
    IN  IF wi >= 1 /\ wi <= Len(window_values) /\ window_values[wi] # None
        THEN window_values[wi]
        ELSE IF b.value # None THEN b.value ELSE 0

-----------------------------------------------------------------------------
(* Usage-status synchronizer, crud.py                                      *)

BenefitTypes == {"standard", "incremental", "cumulative"}

\* should_be_used of sync_benefit_usage_status, from the resolved window on
crud_should_be_used_in(b, reds, window) ==
    LET totals == IF window[1] >= window[2] THEN <<0, 0>>
                  ELSE crud_redemption_summary(reds, window[1], window[2])
        total_amount == totals[1]
        count == totals[2]
    IN  IF b.type = "incremental"
        THEN LET target_value == crud_resolve_window_target(b, window[3])
             IN  target_value > 0 /\ total_amount >= target_value
        ELSE count > 0

\* should_be_used of sync_benefit_usage_status, for a standard or incremental benefit
crud_should_be_used(b, c, reds, excl, td) ==
    crud_should_be_used_in(b, reds, crud_resolve_window_bounds(c, b, excl, td))

crud_store_usage_Flip(b, should_be_used, td) ==
    IF should_be_used
    THEN [b EXCEPT !.is_used = ~b.is_used, !.used_at = IF ~b.is_used THEN td ELSE None]
    ELSE [b EXCEPT !.is_used = FALSE, !.used_at = None]

crud_store_usage_KeepTrue(b, should_be_used, td) ==
    IF should_be_used /\ ~b.is_used
    THEN [b EXCEPT !.is_used = TRUE, !.used_at = td]
    ELSE b

crud_store_usage_StaleUsedAt(b, should_be_used, td) ==
    IF b.is_used # should_be_used
    THEN [b EXCEPT !.is_used = should_be_used,
                   !.used_at = IF should_be_used THEN td ELSE b.used_at]
    ELSE b

\* the end of sync_benefit_usage_status: if benefit_obj.is_used != should_be_used ...
\* used_at = datetime.utcnow() is kept to its date, today.
crud_store_usage(b, should_be_used, td) ==
    IF b.is_used # should_be_used
    THEN [b EXCEPT !.is_used = should_be_used,
                   !.used_at = IF should_be_used THEN td ELSE None]
    ELSE b

crud_sync_benefit_usage_status_NoTypeGuard(b, c, reds, excl, td) ==
    crud_store_usage(
        b,
        crud_should_be_used(
            [b EXCEPT !.type = IF b.type = "cumulative" THEN "standard" ELSE b.type],
            c, reds, excl, td),
        td)

\* sync_benefit_usage_status(session, benefit): the benefit row after it
crud_sync_benefit_usage_status(b, c, reds, excl, td) ==
    IF b.type \notin {"incremental", "standard"} THEN b
    ELSE crud_store_usage(b, crud_should_be_used(b, c, reds, excl, td), td)


-----------------------------------------------------------------------------
(* Display metrics, main.py                                                *)

NoWindow == [start |-> None, end |-> None, label |-> NoLabel, index |-> None]

main_window_matches_frequency_window(window, exclusion) ==
    \/ (exclusion.window_index # None /\ window.index # None
            /\ exclusion.window_index = window.index)
    \/ (exclusion.window_start = window.start /\ exclusion.window_end = window.end)
    \/ (exclusion.window_label # NoLabel /\ exclusion.window_label = window.label)

main_filter_frequency_windows(windows, excl) ==
    IF excl = {} THEN windows
    ELSE LET Kept(w) == ~ \E e \in excl : main_window_matches_frequency_window(w, e)
         IN  SelectSeq(windows, Kept)

main_select_window_for_reference(windows, reference) ==
    LET Holds(w) == w.start <= reference /\ reference < w.end
        holding == SelectSeq(windows, Holds)
    IN  IF holding # <<>> THEN holding[1] ELSE NoWindow

RECURSIVE SeqOfIndexes(_)
SeqOfIndexes(windows) ==
    IF windows = <<>> THEN <<>>
    ELSE <<windows[1].index>> \o SeqOfIndexes(Tail(windows))

\* _enumerate_frequency_windows(cycle_start, cycle_end, frequency, is_calendar_year=...)
main_enumerate_in_cycle(cycle, frequency, mode) ==
    main_enumerate_frequency_windows(cycle[1], cycle[2], frequency, mode = "calendar")

\* selected_window falling back to the first active window
main_selected_window_FirstActive(active_windows, td) ==
    LET found == main_select_window_for_reference(active_windows, td)
    IN  IF found = NoWindow /\ active_windows # <<>>
        THEN active_windows[1]
        ELSE found

\* selected_window of gather_benefit_metrics
main_selected_window(active_windows, td) ==
    LET found == main_select_window_for_reference(active_windows, td)
    IN  IF found = NoWindow /\ active_windows # <<>>
        THEN active_windows[Len(active_windows)]
        ELSE found

\* window_total taken from the cycle's totals whatever the window
main_window_total_CycleTotals(b, reds, selected_window, cycle_totals) ==
    IF selected_window # NoWindow THEN cycle_totals ELSE <<0, 0>>

\* window_total of gather_benefit_metrics
main_window_total(b, reds, selected_window, cycle_totals) ==
    IF selected_window # NoWindow
    THEN IF b.frequency # "yearly" /\ selected_window.start < selected_window.end
         THEN crud_redemption_summary(reds, selected_window.start, selected_window.end)
         ELSE cycle_totals
    ELSE <<0, 0>>

\* the context gather_benefit_metrics builds for the benefit
main_benefit_context(b, reds, cycle, cycle_totals, total_count, active_windows, selected_window) ==
    [overall |-> crud_redemption_summary(reds, None, None),
     cycle_start |-> cycle[1],
     cycle_end |-> cycle[2],
     cycle_total |-> cycle_totals,
     window_start |-> selected_window.start,
     window_end |-> selected_window.end,
     window_label |-> selected_window.label,
     window_index |-> selected_window.index,
     window_count |-> Len(active_windows),
     total_window_count |-> total_count,
     window_total |-> main_window_total(b, reds, selected_window, cycle_totals),
     active_window_indexes |-> SeqOfIndexes(active_windows)]

main_metrics_of_active_windows(b, reds, td, cycle, total_window_count, active_windows) ==
    main_benefit_context(b, reds, cycle,
                         crud_redemption_summary(reds, cycle[1], cycle[2]),
                         total_window_count, active_windows,
                         main_selected_window(active_windows, td))

main_metrics_of_windows(b, reds, excl, td, cycle, cached_windows) ==
    main_metrics_of_active_windows(b, reds, td, cycle, Len(cached_windows),
                                   main_filter_frequency_windows(cached_windows, excl))

main_metrics_in_cycle(b, reds, excl, td, mode, cycle) ==
    main_metrics_of_windows(b, reds, excl, td, cycle,
                            main_enumerate_in_cycle(cycle, b.frequency, mode))

\* gather_benefit_metrics(session, card, [benefit]): details[benefit.id] and overall[benefit.id]
main_gather_benefit_metrics(c, b, reds, excl, td) ==
    main_metrics_in_cycle(b, reds, excl, td, EffectiveMode(c, b),
                          main_compute_cycle_bounds(c, EffectiveMode(c, b), td))

\* _compute_benefit_expiration(benefit, context, default_cycle_end); the context
\* always carries cycle_end, so the fallback is never read
main_compute_benefit_expiration(b, context) ==
    LET expected_expiration ==
            IF b.frequency = "yearly"
            THEN (IF context.cycle_end # None THEN MinusOneDay(context.cycle_end) ELSE None)
            ELSE IF b.frequency \in {"monthly", "quarterly", "semiannual"}
                    /\ context.window_end # None
                 THEN MinusOneDay(context.window_end)
                 ELSE None
    IN  IF b.window_tracking_mode # NoMode /\ expected_expiration # None
        THEN expected_expiration
        ELSE IF b.expiration_date # None
             THEN (IF /\ expected_expiration # None
                      /\ b.window_tracking_mode # NoMode
                      /\ b.expiration_date # expected_expiration
                   THEN expected_expiration
                   ELSE b.expiration_date)
             ELSE expected_expiration

\* _resolve_current_window_value(benefit, window_index)
main_resolve_current_window_value(b, window_index) ==
    IF b.type = "cumulative" THEN None
    ELSE IF window_index # None /\ b.window_values # NoValues
            /\ window_index >= 1 /\ window_index <= Len(b.window_values)
         THEN b.window_values[window_index]
         ELSE b.value

\* the loops over window indexes of _calculate_cycle_target_value and
\* _calculate_missed_window_potential: the override where the index has one,
\* else the default
RECURSIVE main_sum_window_values(_, _, _)
main_sum_window_values(indexes, windows, default) ==
    IF indexes = <<>> THEN 0
    ELSE (IF indexes[1] >= 1 /\ indexes[1] <= Len(windows)
          THEN windows[indexes[1]]
          ELSE default)
         + main_sum_window_values(Tail(indexes), windows, default)

\* range(1, n + 1)
main_range(n) == [i \in 1..n |-> i]

\* _calculate_cycle_target_value(benefit, window_count, active_window_indexes, total_window_count)
main_calculate_cycle_target_value(b, window_count, active_window_indexes, total_window_count) ==
    IF b.type = "cumulative" THEN b.expected_value
    ELSE LET base == IF b.value # None THEN b.value ELSE 0
             indexes == IF active_window_indexes # <<>> THEN active_window_indexes
                        ELSE IF window_count > 0 THEN main_range(window_count)
                        ELSE main_range(total_window_count)
             total == main_sum_window_values(indexes, b.window_values, base)
         IN  IF active_window_indexes = <<>> /\ window_count <= 0 /\ total_window_count <= 0
             THEN b.value
             ELSE IF total = 0 /\ b.value = None /\ b.window_values = NoValues
                  THEN None
                  ELSE total

\* active_indexes.index(window_index)
main_index_of(indexes, window_index) ==
    (CHOOSE i \in 1..Len(indexes) : indexes[i] = window_index /\ \A j \in 1..(i - 1) : indexes[j] # window_index) - 1

\* _calculate_missed_window_potential(benefit_read, cycle_total)
main_calculate_missed_window_potential(read, cycle_total) ==
    LET window_index == read.current_window_index
        active_indexes == read.active_window_indexes
        default_value == IF read.value # None THEN read.value ELSE 0
        position == IF window_index # None /\ window_index # 0
                       /\ \E i \in 1..Len(active_indexes) : active_indexes[i] = window_index
                    THEN main_index_of(active_indexes, window_index)
                    ELSE Len(active_indexes)
        total_windows == IF read.cycle_window_count # None /\ read.cycle_window_count # 0
                         THEN read.cycle_window_count ELSE window_index
        past_redeemed == Max(0, cycle_total - read.current_window_total)
    IN  IF active_indexes # <<>>
        THEN (IF position = 0 THEN 0
              ELSE Max(0, main_sum_window_values(SubSeq(active_indexes, 1, position),
                                                 read.window_values, default_value)
                          - past_redeemed))
        ELSE IF window_index = None \/ window_index <= 1 THEN 0
        ELSE IF total_windows <= 1 THEN 0
        ELSE Max(0, main_sum_window_values(main_range(Min(window_index - 1, total_windows)),
                                           read.window_values, default_value)
                    - past_redeemed)

\* cycle_target of build_benefit_read: the computed target, else expected_value
main_cycle_target_or_expected(b, cycle_target_value) ==
    IF cycle_target_value # None THEN cycle_target_value ELSE b.expected_value

\* the BenefitRead(...) constructor call of build_benefit_read
main_benefit_read_fields(b, context, resolved_window_count) ==
    [kind |-> "benefit",
     type |-> b.type,
     frequency |-> b.frequency,
     value |-> b.value,
     expected_value |-> b.expected_value,
     window_values |-> b.window_values,
     window_tracking_mode |-> b.window_tracking_mode,
     expiration_date |-> main_compute_benefit_expiration(b, context),
     is_used |-> b.is_used,
     used_at |-> b.used_at,
     redemption_total |-> context.overall[1],
     redemption_count |-> context.overall[2],
     cycle_redemption_total |-> context.cycle_total[1],
     current_window_total |-> context.window_total[1],
     current_window_value |-> main_resolve_current_window_value(b, context.window_index),
     current_window_index |-> context.window_index,
     cycle_window_count |-> resolved_window_count,
     cycle_target_value |-> main_cycle_target_or_expected(b,
                                main_calculate_cycle_target_value(
                                    b, context.window_count, context.active_window_indexes,
                                    context.total_window_count)),
     missed_window_value |-> 0,
     active_window_indexes |-> context.active_window_indexes]

\* the end of build_benefit_read: missed_window_value of a standard or incremental benefit
main_with_missed_window_value(read) ==
    IF read.type \in {"standard", "incremental"}
    THEN [read EXCEPT !.missed_window_value =
              main_calculate_missed_window_potential(read, read.cycle_redemption_total)]
    ELSE read

\* build_benefit_read(benefit, ...) on the context of gather_benefit_metrics, as
\* build_card_response and build_enriched_benefit call it.  BenefitRead rejects
\* cycle_window_count < 1 (schemas.py, ge=1): the request fails.
main_build_benefit_read(b, context) ==
    LET resolved_window_count == IF context.active_window_indexes # <<>>
                                 THEN Len(context.active_window_indexes)
                                 ELSE context.window_count
    IN  IF resolved_window_count < 1 THEN ErrorResponse
        ELSE main_with_missed_window_value(
                 main_benefit_read_fields(b, context, resolved_window_count))

\* compute_benefit_totals with the utilized value of an incremental or capped
\* cumulative benefit left uncapped
main_compute_benefit_totals_Uncapped(read, td) ==
    LET cycle_total == read.cycle_redemption_total
        expired == read.expiration_date # None /\ read.expiration_date < td
        missed_potential == IF read.type \in {"standard", "incremental"}
                            THEN read.missed_window_value ELSE 0
        target_or_value == IF read.cycle_target_value # None THEN read.cycle_target_value
                           ELSE IF read.value # None THEN read.value ELSE 0
        base_potential == IF read.type \in {"standard", "incremental"}
                          THEN Max(target_or_value - missed_potential, 0)
                          ELSE IF read.expected_value # None THEN read.expected_value
                          ELSE cycle_total
        base_utilized == IF read.type = "standard"
                         THEN (IF read.is_used THEN base_potential ELSE 0)
                         ELSE cycle_total
    IN  <<IF expired THEN 0 ELSE base_potential, base_utilized>>

\* compute_benefit_totals with a used standard benefit counted at its full
\* target, missed windows included
main_compute_benefit_totals_UsedAtFullTarget(read, td) ==
    LET cycle_total == read.cycle_redemption_total
        expired == read.expiration_date # None /\ read.expiration_date < td
        missed_potential == IF read.type \in {"standard", "incremental"}
                            THEN read.missed_window_value ELSE 0
        target_or_value == IF read.cycle_target_value # None THEN read.cycle_target_value
                           ELSE IF read.value # None THEN read.value ELSE 0
        base_potential == IF read.type \in {"standard", "incremental"}
                          THEN Max(target_or_value - missed_potential, 0)
                          ELSE IF read.expected_value # None THEN read.expected_value
                          ELSE cycle_total
        base_utilized == IF read.type = "standard"
                         THEN (IF read.is_used THEN target_or_value ELSE 0)
                         ELSE IF read.type = "incremental" THEN Min(cycle_total, base_potential)
                         ELSE IF read.expected_value # None THEN Min(cycle_total, base_potential)
                         ELSE cycle_total
    IN  <<IF expired THEN 0 ELSE base_potential, base_utilized>>

\* compute_benefit_totals(benefit_read): <<potential, utilized>>
main_compute_benefit_totals(read, td) ==
    LET cycle_total == read.cycle_redemption_total
        expired == read.expiration_date # None /\ read.expiration_date < td
        missed_potential == IF read.type \in {"standard", "incremental"}
                            THEN read.missed_window_value ELSE 0
        target_or_value == IF read.cycle_target_value # None THEN read.cycle_target_value
                           ELSE IF read.value # None THEN read.value ELSE 0
        base_potential == IF read.type \in {"standard", "incremental"}
                          THEN Max(target_or_value - missed_potential, 0)
                          ELSE IF read.expected_value # None THEN read.expected_value
                          ELSE cycle_total
        base_utilized == IF read.type = "standard"
                         THEN (IF read.is_used THEN base_potential ELSE 0)
                         ELSE IF read.type = "incremental" THEN Min(cycle_total, base_potential)
                         ELSE IF read.expected_value # None THEN Min(cycle_total, base_potential)
                         ELSE cycle_total
    IN  <<IF expired THEN 0 ELSE base_potential, base_utilized>>

\* build_enriched_benefit(session, benefit, card) / the benefit of build_card_response
main_build_enriched_benefit(b, c, reds, excl, td) ==
    main_build_benefit_read(b, main_gather_benefit_metrics(c, b, reds, excl, td))


-----------------------------------------------------------------------------
(* Benefit create and update, schemas.py and crud.py                       *)

\* schemas.WINDOW_COUNT_BY_FREQUENCY.get(frequency); 0 for a missing key
schemas_WINDOW_COUNT_BY_FREQUENCY(frequency) ==
    CASE frequency = "monthly" -> 12
      [] frequency = "quarterly" -> 4
      [] frequency = "semiannual" -> 2
      [] OTHER -> 0

\* normalise_window_values without the length check
schemas_normalise_window_values_AnyLength(frequency, values) ==
    LET expected == schemas_WINDOW_COUNT_BY_FREQUENCY(frequency)
    IN  IF values = NoValues THEN [ok |-> TRUE, values |-> NoValues]
        ELSE IF expected = 0 THEN [ok |-> FALSE, values |-> NoValues]
        ELSE IF \E i \in 1..Len(values) : values[i] < 0 THEN [ok |-> FALSE, values |-> NoValues]
        ELSE [ok |-> TRUE, values |-> values]

\* normalise_window_values(frequency, values): the list, or a ValueError.
\* List[float] admits no None entry, so cleaned = values.
schemas_normalise_window_values(frequency, values) ==
    LET expected == schemas_WINDOW_COUNT_BY_FREQUENCY(frequency)
    IN  IF values = NoValues THEN [ok |-> TRUE, values |-> NoValues]
        ELSE IF expected = 0 THEN [ok |-> FALSE, values |-> NoValues]
        ELSE IF Len(values) # expected THEN [ok |-> FALSE, values |-> NoValues]
        ELSE IF \E i \in 1..Len(values) : values[i] < 0 THEN [ok |-> FALSE, values |-> NoValues]
        ELSE [ok |-> TRUE, values |-> values]

\* BenefitCreate.validate_value
schemas_BenefitCreate_valid(payload) ==
    /\ ~(payload.type # "cumulative" /\ (payload.value = None \/ payload.value <= 0))
    /\ ~(payload.type = "cumulative" /\ payload.value \notin {None, 0})
    /\ ~(payload.type # "cumulative" /\ payload.expected_value \notin {None, 0})
    /\ schemas_normalise_window_values(payload.frequency, payload.window_values).ok

\* create_benefit(session, card, payload), the payload validated by BenefitCreate
crud_create_benefit(payload, c, reds, excl, td) ==
    LET row == [type |-> payload.type,
                frequency |-> payload.frequency,
                value |-> IF payload.value # None THEN payload.value ELSE 0,
                expected_value |-> payload.expected_value,
                window_values |-> schemas_normalise_window_values(
                                      payload.frequency, payload.window_values).values,
                window_tracking_mode |-> IF payload.type = "cumulative" THEN NoMode
                                         ELSE payload.window_tracking_mode,
                expiration_date |-> payload.expiration_date,
                is_used |-> FALSE,
                used_at |-> None]
    IN  crud_sync_benefit_usage_status(row, c, reds, excl, td)

Has(payload, field) == field \in DOMAIN payload
Get(payload, field, default) == IF field \in DOMAIN payload THEN payload[field] ELSE default

\* BenefitUpdate.validate_window_values
schemas_BenefitUpdate_valid(payload) ==
    (Get(payload, "frequency", "none") # "none" /\ Get(payload, "window_values", NoValues) # NoValues)
        => schemas_normalise_window_values(payload.frequency, payload.window_values).ok

\* update_benefit(session, benefit, payload) up to session.commit(): the row it
\* would commit, and whether normalise_window_values raised on the way.
\* The payload's domain is model_fields_set.
crud_update_benefit_row(b, payload, td) ==
    LET new_type == Get(payload, "type", "none")
        type_changes == new_type # "none" /\ new_type # b.type
        type_after == Get(payload, "type", b.type)
        target_frequency == IF Get(payload, "frequency", "none") # "none"
                            THEN payload.frequency ELSE b.frequency
        normalised == schemas_normalise_window_values(
                          target_frequency, Get(payload, "window_values", NoValues))
        sets_usage == Has(payload, "is_used") /\ type_after \in {"standard", "cumulative"}
    IN  [raised |-> /\ Has(payload, "window_values")
                    /\ payload.window_values # NoValues
                    /\ ~normalised.ok,
         row |->
           [type |-> type_after,
            frequency |-> Get(payload, "frequency", b.frequency),
            value |-> IF Get(payload, "value", None) # None THEN payload.value ELSE b.value,
            expected_value |->
                IF Has(payload, "expected_value") THEN payload.expected_value
                ELSE IF type_changes /\ new_type # "cumulative" THEN None
                ELSE b.expected_value,
            window_values |-> IF Has(payload, "window_values") THEN normalised.values
                              ELSE b.window_values,
            window_tracking_mode |->
                IF Has(payload, "window_tracking_mode") THEN payload.window_tracking_mode
                ELSE IF type_changes /\ new_type = "cumulative" THEN NoMode
                ELSE b.window_tracking_mode,
            expiration_date |-> Get(payload, "expiration_date", b.expiration_date),
            is_used |-> IF sets_usage THEN payload.is_used
                        ELSE IF type_changes THEN FALSE ELSE b.is_used,
            used_at |-> IF sets_usage THEN (IF payload.is_used THEN td ELSE None)
                        ELSE IF type_changes THEN None ELSE b.used_at]]

\* set_benefit_usage that leaves used_at as it was
crud_set_benefit_usage_KeepsUsedAt(b, is_used, td) ==
    [b EXCEPT !.is_used = is_used]

\* set_benefit_usage(session, benefit, payload)
crud_set_benefit_usage(b, is_used, td) ==
    [b EXCEPT !.is_used = is_used, !.used_at = IF is_used THEN td ELSE None]


-----------------------------------------------------------------------------
(* The service: one card, one benefit, its redemptions and exclusions      *)

SampleDates == {MkDate(2024, 5, 15), MkDate(2024, 7, 1), MkDate(2025, 1, 10)}
Amounts == {25}
SampleValue == 50
SampleExpectedValue == 100

\* per-window overrides of the right length: 0 at windows 1, 4, 7, ..., 25 elsewhere
SampleWindowValues(frequency) ==
    [i \in 1..schemas_WINDOW_COUNT_BY_FREQUENCY(frequency) |-> IF i % 3 = 1 THEN 0 ELSE 25]

SampleFrequencies == {"monthly", "quarterly", "yearly"}

Cards == {[DefaultCard EXCEPT !.year_tracking_mode = m] : m \in Modes}

CreatePayloads ==
    {p \in [type : BenefitTypes,
            frequency : SampleFrequencies,
            value : {None, SampleValue},
            expected_value : {None, SampleExpectedValue},
            window_values : {NoValues} \cup {SampleWindowValues(f) : f \in SampleFrequencies},
            window_tracking_mode : {NoMode, "calendar"},
            expiration_date : {None}] :
        /\ schemas_BenefitCreate_valid(p)
        /\ (p.type = "cumulative" => p.window_tracking_mode = NoMode)
        /\ (p.type # "incremental" => p.window_values = NoValues)}

UpdatePayloads == {[is_used |-> u] : u \in BOOLEAN}

ExclusionVariants == {"full", "dates"}

\* the payload a client builds from a window of the benefit's read
ExclusionPayload(window, variant) ==
    [window_start |-> window.start,
     window_end |-> window.end,
     window_index |-> IF variant \in {"full", "index"} THEN window.index ELSE None,
     window_label |-> IF variant \in {"full", "label"} THEN window.label ELSE NoLabel]

\* the windows of a sequence that hold the date
WindowsHolding(windows, d) ==
    {windows[i] : i \in {j \in 1..Len(windows) : windows[j].start <= d /\ d < windows[j].end}}

\* the window of the benefit's cycle that holds today, as main.py enumerates it
WindowsOfToday ==
    WindowsHolding(
        main_enumerate_in_cycle(
            main_compute_cycle_bounds(card, EffectiveMode(card, benefit), today),
            benefit.frequency, EffectiveMode(card, benefit)),
        today)

\* how is_used came to its value: "none" (never set or reset), "sync" (the sync
\* set it), "manual" (a client set it), "overwritten" (the sync reset a manual flag)
UsedViaAfterSync(before, after) ==
    IF after.is_used # before.is_used
    THEN (IF after.is_used THEN "sync"
          ELSE IF usedVia = "manual" THEN "overwritten" ELSE "none")
    ELSE usedVia

Init ==
    /\ card \in Cards
    /\ today \in SampleDates
    /\ redemptions = EmptyBag
    /\ exclusions = {}
    /\ \E p \in CreatePayloads :
          benefit = crud_create_benefit(p, card, EmptyBag, {}, today)
    /\ lastOp = "add_benefit"
    /\ usedVia = "none"
    /\ response = main_build_enriched_benefit(benefit, card, redemptions, exclusions, today)
    /\ calc = CalIdle

\* POST /api/benefits/{id}/redemptions: crud.create_benefit_redemption
CreateBenefitRedemption ==
    /\ BagCardinality(redemptions) < MaxRedemptions
    /\ \E amount \in Amounts, occurred_on \in SampleDates :
          redemptions' = redemptions (+) SetToBag({[amount |-> amount, occurred_on |-> occurred_on]})
    /\ benefit' = crud_sync_benefit_usage_status(benefit, card, redemptions', exclusions, today)
    /\ usedVia' = UsedViaAfterSync(benefit, benefit')
    /\ lastOp' = "create_redemption"
    /\ response' = NoResponse
    /\ UNCHANGED <<card, exclusions, today, calc>>

\* PUT /api/redemptions/{id}: crud.update_benefit_redemption
UpdateBenefitRedemption ==
    /\ \E r \in BagToSet(redemptions) :
          \E payload \in {[amount |-> a] : a \in Amounts}
                           \cup {[occurred_on |-> d] : d \in SampleDates} :
             redemptions' =
                 (redemptions (-) SetToBag({r}))
                     (+) SetToBag({[amount |-> Get(payload, "amount", r.amount),
                                    occurred_on |-> Get(payload, "occurred_on", r.occurred_on)]})
    /\ benefit' = crud_sync_benefit_usage_status(benefit, card, redemptions', exclusions, today)
    /\ usedVia' = UsedViaAfterSync(benefit, benefit')
    /\ lastOp' = "update_redemption"
    /\ response' = NoResponse
    /\ UNCHANGED <<card, exclusions, today, calc>>

\* DELETE /api/redemptions/{id}: crud.delete_benefit_redemption
DeleteBenefitRedemption ==
    /\ \E r \in BagToSet(redemptions) :
          redemptions' = redemptions (-) SetToBag({r})
    /\ benefit' = crud_sync_benefit_usage_status(benefit, card, redemptions', exclusions, today)
    /\ usedVia' = UsedViaAfterSync(benefit, benefit')
    /\ lastOp' = "delete_redemption"
    /\ response' = NoResponse
    /\ UNCHANGED <<card, exclusions, today, calc>>

\* POST /api/benefits/{id}/window-deletions: crud.create_benefit_window_exclusion,
\* then crud.sync_benefit_usage_status
CreateBenefitWindowDeletion ==
    /\ \E w \in WindowsOfToday, variant \in ExclusionVariants :
          LET exclusion == ExclusionPayload(w, variant)
              existing == \E e \in exclusions :
                              /\ e.window_start = exclusion.window_start
                              /\ e.window_end = exclusion.window_end
          IN  IF existing
              THEN exclusions' = exclusions
              ELSE /\ Cardinality(exclusions) < MaxExclusions
                   /\ exclusions' = exclusions \cup {exclusion}
    /\ benefit' = crud_sync_benefit_usage_status(benefit, card, redemptions, exclusions', today)
    /\ usedVia' = UsedViaAfterSync(benefit, benefit')
    /\ lastOp' = "create_exclusion"
    /\ response' = NoResponse
    /\ UNCHANGED <<card, redemptions, today, calc>>

\* DELETE /api/window-deletions/{id}: crud.delete_benefit_window_exclusion,
\* then crud.sync_benefit_usage_status
DeleteBenefitWindowDeletion ==
    /\ \E e \in exclusions : exclusions' = exclusions \ {e}
    /\ benefit' = crud_sync_benefit_usage_status(benefit, card, redemptions, exclusions', today)
    /\ usedVia' = UsedViaAfterSync(benefit, benefit')
    /\ lastOp' = "delete_exclusion"
    /\ response' = NoResponse
    /\ UNCHANGED <<card, redemptions, today, calc>>

\* POST /api/benefits/{id}/usage: standard benefits only, crud.set_benefit_usage
SetBenefitUsage ==
    /\ benefit.type = "standard"
    /\ \E is_used \in BOOLEAN :
          /\ benefit' = crud_set_benefit_usage(benefit, is_used, today)
          /\ usedVia' = IF is_used THEN "manual" ELSE "none"
    /\ lastOp' = "set_benefit_usage"
    /\ response' = main_build_enriched_benefit(benefit', card, redemptions, exclusions, today)
    /\ UNCHANGED <<card, redemptions, exclusions, today, calc>>

\* PUT /api/benefits/{id}: crud.update_benefit; a ValueError ends the request
\* with 422 and nothing committed
UpdateBenefit ==
    /\ \E payload \in UpdatePayloads :
          /\ schemas_BenefitUpdate_valid(payload)
          /\ \E updated \in {crud_update_benefit_row(benefit, payload, today)} :
                IF updated.raised
                THEN /\ benefit' = benefit
                     /\ usedVia' = usedVia
                     /\ response' = ErrorResponse
                ELSE /\ benefit' = crud_sync_benefit_usage_status(
                                       updated.row, card, redemptions, exclusions, today)
                     /\ usedVia' = IF benefit'.is_used = benefit.is_used THEN usedVia
                                   ELSE IF ~benefit'.is_used
                                   THEN (IF usedVia = "manual" /\ updated.row.is_used
                                         THEN "overwritten" ELSE "none")
                                   ELSE IF updated.row.is_used THEN "manual" ELSE "sync"
                     /\ response' = main_build_enriched_benefit(
                                        benefit', card, redemptions, exclusions, today)
    /\ lastOp' = "update_benefit"
    /\ UNCHANGED <<card, redemptions, exclusions, today, calc>>

\* crud.sync_benefit_usage_status(session, benefit) on its own
SyncBenefitUsageStatus ==
    /\ benefit' = crud_sync_benefit_usage_status(benefit, card, redemptions, exclusions, today)
    /\ usedVia' = UsedViaAfterSync(benefit, benefit')
    /\ lastOp' = "sync"
    /\ response' = NoResponse
    /\ UNCHANGED <<card, redemptions, exclusions, today, calc>>

\* GET /api/cards: list_cards, build_card_response
ListCards ==
    /\ response' = main_build_enriched_benefit(benefit, card, redemptions, exclusions, today)
    /\ lastOp' = "list_cards"
    /\ UNCHANGED <<card, benefit, redemptions, exclusions, today, usedVia, calc>>

\* the calendar moves on: date.today() returns a later date
AdvanceToday ==
    /\ \E d \in SampleDates : d > today /\ today' = d
    /\ lastOp' = "tick"
    /\ response' = NoResponse
    /\ UNCHANGED <<card, benefit, redemptions, exclusions, usedVia, calc>>

Next ==
    \/ CreateBenefitRedemption
    \/ UpdateBenefitRedemption
    \/ DeleteBenefitRedemption
    \/ CreateBenefitWindowDeletion
    \/ DeleteBenefitWindowDeletion
    \/ SetBenefitUsage
    \/ UpdateBenefit
    \/ SyncBenefitUsageStatus
    \/ ListCards
    \/ AdvanceToday

Spec == Init /\ [][Next]_vars


-----------------------------------------------------------------------------
(* Usage status after writes and on reads                                  *)

RedemptionOps == {"create_redemption", "update_redemption", "delete_redemption"}
ExclusionOps == {"create_exclusion", "delete_exclusion"}
SyncingOps == RedemptionOps \cup ExclusionOps \cup {"update_benefit", "sync"}

\* the ledger's amounts, summed over the given kinds of redemption
RECURSIVE LedgerAmount(_)
LedgerAmount(kinds) ==
    IF kinds = {} THEN 0
    ELSE LET k == CHOOSE x \in kinds : TRUE
         IN  k.amount * CopiesIn(k, redemptions) + LedgerAmount(kinds \ {k})

\* the kinds of redemption dated in [start, end)
DatedIn(start, end) ==
    {k \in BagToSet(redemptions) : start <= k.occurred_on /\ k.occurred_on < end}

\* today's current window of the benefit: <<start, end, original index>>
CurrentWindow == crud_resolve_window_bounds(card, benefit, exclusions, today)

\* no redemption of the ledger is dated inside the window
NoRedemptionIn(reds, window) ==
    \A k \in BagToSet(reds) : ~(window[1] <= k.occurred_on /\ k.occurred_on < window[2])

NoRedemptionInCurrentWindow == NoRedemptionIn(redemptions, CurrentWindow)

IncrementalTarget ==
    IF CurrentWindow[3] \in DOMAIN benefit.window_values
    THEN benefit.window_values[CurrentWindow[3]]
    ELSE benefit.value

\* C4: right after a redemption create, update or delete on an incremental
\* benefit, the stored is_used is true exactly when the target (the override of
\* the current window's original index, else the flat value) is positive and the
\* amounts dated inside today's current window sum to at least the target.
C4_IncrementalUsedIffTargetMet ==
    (lastOp \in RedemptionOps /\ benefit.type = "incremental") =>
        (benefit.is_used <=>
            (/\ IncrementalTarget > 0
             /\ LedgerAmount(DatedIn(CurrentWindow[1], CurrentWindow[2])) >= IncrementalTarget))

\* an override of 25 met by one redemption of 25 while the flat value is 50
C4_Witness ==
    /\ lastOp \in RedemptionOps
    /\ benefit.type = "incremental"
    /\ benefit.is_used
    /\ IncrementalTarget = 25
    /\ benefit.value = SampleValue
    /\ LedgerAmount(DatedIn(CurrentWindow[1], CurrentWindow[2])) = 25

\* C5: right after a redemption create, update or delete on a standard benefit,
\* the stored is_used is true exactly when some redemption of the benefit is
\* dated inside today's current window.
C5_StandardUsedIffRedeemedInWindow ==
    (lastOp \in RedemptionOps /\ benefit.type = "standard") =>
        (benefit.is_used <=> ~NoRedemptionInCurrentWindow)

\* a delete that empties the current window while the ledger keeps a redemption
\* of another window
C5_Witness ==
    /\ lastOp = "delete_redemption"
    /\ benefit.type = "standard"
    /\ ~benefit.is_used
    /\ NoRedemptionInCurrentWindow
    /\ redemptions # EmptyBag

\* C6: a standard or incremental benefit of a sub-yearly frequency was marked
\* used by the sync on a redemption in window N; today then moves into window
\* N+1, which holds no redemption, and nothing is written; the read of the card
\* that follows reports is_used = false.
C6_ReadInNextWindowReportsUnused ==
    [][(/\ lastOp = "tick"
        /\ lastOp' = "list_cards"
        /\ benefit.type \in {"standard", "incremental"}
        /\ benefit.frequency \in {"monthly", "quarterly", "semiannual"}
        /\ exclusions = {}
        /\ usedVia = "sync"
        /\ benefit.used_at # None
        /\ LET window_n == crud_resolve_window_bounds(card, benefit, exclusions, benefit.used_at)
           IN  /\ DatedIn(window_n[1], window_n[2]) # {}
               /\ CurrentWindow[1] = window_n[2]
        /\ NoRedemptionInCurrentWindow)
       => (response'.kind = "benefit" /\ response'.is_used = FALSE)]_vars

\* the window of the benefit's read with the reported current_window_index
ReportedWindows ==
    LET windows == main_enumerate_in_cycle(
                       main_compute_cycle_bounds(card, EffectiveMode(card, benefit), today),
                       benefit.frequency, EffectiveMode(card, benefit))
    IN  {windows[i] : i \in {j \in 1..Len(windows) :
                                windows[j].index = response.current_window_index}}

\* C7: the current_window_total a read reports for a non-yearly benefit is the
\* sum of the amounts dated in [window_start, window_end) of the selected
\* window; redemptions of other windows add nothing.
C7_WindowTotalIsHalfOpenSum ==
    (/\ response.kind = "benefit"
     /\ benefit.frequency # "yearly"
     /\ response.current_window_index # None) =>
        /\ ReportedWindows # {}
        /\ \A w \in ReportedWindows :
              response.current_window_total = LedgerAmount(DatedIn(w.start, w.end))

\* a read whose window holds one of two redemptions, the other dated on the
\* window's end
C7_Witness ==
    /\ lastOp = "list_cards"
    /\ response.kind = "benefit"
    /\ benefit.frequency # "yearly"
    /\ response.current_window_total = 25
    /\ response.redemption_total = 50
    /\ \E w \in ReportedWindows : \E k \in BagToSet(redemptions) : k.occurred_on = w.end

\* C8: on a cumulative benefit no redemption create, update or delete, no
\* exclusion create or delete and no sync changes is_used or used_at.
C8_CumulativeNeverSynced ==
    [][(benefit.type = "cumulative" /\ lastOp' \in RedemptionOps \cup ExclusionOps \cup {"sync"})
          => (benefit'.is_used = benefit.is_used /\ benefit'.used_at = benefit.used_at)]_vars

\* a cumulative benefit marked used keeps the mark when its last redemption goes
C8_Witness ==
    /\ benefit.type = "cumulative"
    /\ benefit.is_used
    /\ benefit.used_at # None
    /\ lastOp = "delete_redemption"
    /\ redemptions = EmptyBag

\* C9: once the sync has run, running it again with the same today, ledger,
\* exclusions and benefit changes nothing.
C9_SyncIsIdempotent ==
    lastOp \in SyncingOps =>
        crud_sync_benefit_usage_status(benefit, card, redemptions, exclusions, today) = benefit

\* a sync of its own that has just marked the benefit used
C9_Witness ==
    /\ lastOp = "sync"
    /\ usedVia = "sync"
    /\ benefit.is_used
    /\ benefit.used_at = today

-----------------------------------------------------------------------------
(* Creating and updating a benefit: the requests and what they store       *)

\* the card has no benefit yet
NoBenefit == [type |-> "none"]

\* window_values arrays of requests: empty, of one entry, of 2, 4 and 12, and
\* one of 2 with a negative entry
RequestWindowValues ==
    {<<>>, <<25>>, <<25, -5>>}
    \cup {SampleWindowValues(f) : f \in {"monthly", "quarterly", "semiannual"}}

\* request bodies of POST /api/cards/{id}/benefits: window_values, where the
\* body has it, is a JSON array
AddBenefitPayloads ==
    LET base == [type : BenefitTypes,
                 frequency : Frequencies,
                 value : {None, SampleValue},
                 expected_value : {None, SampleExpectedValue}]
    IN  base \cup
        {[type |-> p.type, frequency |-> p.frequency, value |-> p.value,
          expected_value |-> p.expected_value, window_values |-> w] :
            p \in base, w \in RequestWindowValues}

\* BenefitBase defaults for the fields a create body leaves out
schemas_BenefitCreate_parse(raw) ==
    [type |-> raw.type,
     frequency |-> raw.frequency,
     value |-> raw.value,
     expected_value |-> raw.expected_value,
     window_values |-> Get(raw, "window_values", NoValues),
     window_tracking_mode |-> Get(raw, "window_tracking_mode", NoMode),
     expiration_date |-> Get(raw, "expiration_date", None)]

\* request bodies of PUT /api/benefits/{id}: the fields the body sets
PutBenefitPayloads ==
    {[is_used |-> u] : u \in BOOLEAN}
    \cup {[type |-> t] : t \in BenefitTypes}
    \cup {[frequency |-> f] : f \in Frequencies}
    \cup {[value |-> v] : v \in {0, SampleValue}}
    \cup {[expected_value |-> e] : e \in {None, SampleExpectedValue}}
    \cup {[window_values |-> w] : w \in RequestWindowValues}
    \cup {[frequency |-> f, window_values |-> w] : f \in Frequencies, w \in RequestWindowValues}
    \cup {[value |-> SampleValue + 25, window_values |-> <<25>>]}
    \cup {[type |-> t, window_values |-> <<25>>] : t \in BenefitTypes}

InitUpd ==
    /\ card = DefaultCard
    /\ today = DefaultToday
    /\ benefit = NoBenefit
    /\ redemptions = EmptyBag
    /\ exclusions = {}
    /\ lastOp = "create_card"
    /\ usedVia = "none"
    /\ response = NoResponse
    /\ calc = CalIdle

\* POST /api/cards/{id}/benefits: add_benefit; a body BenefitCreate rejects
\* ends the request with 422
AddBenefit ==
    /\ benefit = NoBenefit
    /\ \E raw \in AddBenefitPayloads :
          /\ calc' = [phase |-> "request", payload |-> raw]
          /\ \E payload \in {schemas_BenefitCreate_parse(raw)} :
                IF schemas_BenefitCreate_valid(payload)
                THEN /\ benefit' = crud_create_benefit(payload, card, redemptions, exclusions, today)
                     /\ response' = main_build_enriched_benefit(
                                        benefit', card, redemptions, exclusions, today)
                ELSE /\ benefit' = benefit
                     /\ response' = ErrorResponse
    /\ lastOp' = "add_benefit"
    /\ UNCHANGED <<card, redemptions, exclusions, today, usedVia>>

\* the attributes of the session's Benefit object when normalise_window_values
\* raises in update_benefit: the assignments before the raise are made, those
\* after it (window_values, is_used, used_at of the payload) are not
crud_update_benefit_at_raise(b, payload, row) ==
    LET type_changes == Has(payload, "type") /\ payload.type # b.type
    IN  [row EXCEPT !.window_values = b.window_values,
                    !.is_used = IF type_changes THEN FALSE ELSE b.is_used,
                    !.used_at = IF type_changes THEN None ELSE b.used_at]

\* a session that writes its pending attributes out when it is closed
database_get_session_exit_Flushing(stored, pending) == pending

\* get_session: `with Session(engine) as session: yield session`; leaving the
\* block on the request's exception closes the session without a commit, and
\* the pending attributes of its objects are dropped
database_get_session_exit(stored, pending) == stored

\* PUT /api/benefits/{id}: update_benefit; a body BenefitUpdate rejects and a
\* ValueError of crud.update_benefit end the request with 422, nothing committed
PutBenefit ==
    /\ benefit # NoBenefit
    /\ \E payload \in PutBenefitPayloads :
          /\ calc' = [phase |-> "request", payload |-> payload]
          /\ \E updated \in {crud_update_benefit_row(benefit, payload, today)} :
                IF ~schemas_BenefitUpdate_valid(payload)
                THEN /\ benefit' = benefit
                     /\ response' = ErrorResponse
                ELSE IF updated.raised
                THEN /\ benefit' = database_get_session_exit(
                                       benefit,
                                       crud_update_benefit_at_raise(benefit, payload, updated.row))
                     /\ response' = ErrorResponse
                ELSE /\ benefit' = crud_sync_benefit_usage_status(
                                       updated.row, card, redemptions, exclusions, today)
                     /\ response' = main_build_enriched_benefit(
                                        benefit', card, redemptions, exclusions, today)
    /\ lastOp' = "update_benefit"
    /\ UNCHANGED <<card, redemptions, exclusions, today, usedVia>>

\* DELETE /api/benefits/{id}: delete_benefit
DeleteBenefit ==
    /\ benefit # NoBenefit
    /\ benefit' = NoBenefit
    /\ calc' = CalIdle
    /\ response' = NoResponse
    /\ lastOp' = "delete_benefit"
    /\ UNCHANGED <<card, redemptions, exclusions, today, usedVia>>

NextUpd ==
    \/ AddBenefit
    \/ PutBenefit
    \/ DeleteBenefit

SpecUpd == InitUpd /\ [][NextUpd]_vars

\* the last request was an update whose body set is_used = true and left the
\* type alone
UpdateSetUsed ==
    /\ lastOp = "update_benefit"
    /\ calc.phase = "request"
    /\ Has(calc.payload, "is_used")
    /\ calc.payload.is_used
    /\ ~Has(calc.payload, "type")

\* C11: after update_benefit with is_used = true on a standard or incremental
\* benefit with no redemptions, the stored and the returned benefit have
\* is_used = true.
C11_ManualCompletionSurvivesSync ==
    (/\ UpdateSetUsed
     /\ benefit.type \in {"standard", "incremental"}
     /\ redemptions = EmptyBag
     /\ response.kind = "benefit")
    => (benefit.is_used /\ response.is_used)


\* the last request carried a window_values array
RequestHasWindowValues ==
    /\ lastOp \in {"add_benefit", "update_benefit"}
    /\ calc.phase = "request"
    /\ Has(calc.payload, "window_values")

\* the frequency the last request's window_values are for: the body's, else the
\* benefit's
RequestFrequency == Get(calc.payload, "frequency", benefit.frequency)

\* the rest of the last request's body is one the service accepts
RequestOtherwiseValid ==
    lastOp = "add_benefit"
        => schemas_BenefitCreate_valid(
               [schemas_BenefitCreate_parse(calc.payload) EXCEPT !.window_values = NoValues])

\* 12 monthly, 4 quarterly, 2 semiannual
RequiredWindowValues(frequency) ==
    CASE frequency = "monthly" -> 12
      [] frequency = "quarterly" -> 4
      [] frequency = "semiannual" -> 2

\* the request was accepted and the benefit stores and reads back the array
WindowValuesReadBack ==
    /\ response.kind = "benefit"
    /\ response.window_values = calc.payload.window_values
    /\ benefit.window_values = calc.payload.window_values

\* C16 as stated: on create and on update, window_values of the length the
\* frequency requires is accepted and reads back unchanged; an array of any
\* other length, the empty one included, is rejected.
C16_AnyOtherLengthRejected ==
    (/\ RequestHasWindowValues
     /\ RequestFrequency \in {"monthly", "quarterly", "semiannual"}
     /\ RequestOtherwiseValid)
    => IF Len(calc.payload.window_values) = RequiredWindowValues(RequestFrequency)
       THEN WindowValuesReadBack
       ELSE response = ErrorResponse

\* C16: on create and on update, window_values of the length the frequency
\* requires (12 monthly, 4 quarterly, 2 semiannual) and without a negative entry
\* is accepted and reads back as the same sequence; a non-empty array of any
\* other length is rejected.
C16_WindowValuesLengthChecked ==
    (/\ RequestHasWindowValues
     /\ RequestFrequency \in {"monthly", "quarterly", "semiannual"}
     /\ RequestOtherwiseValid)
    => IF Len(calc.payload.window_values) = RequiredWindowValues(RequestFrequency)
       THEN ((\A i \in 1..Len(calc.payload.window_values) : calc.payload.window_values[i] >= 0)
                => WindowValuesReadBack)
       ELSE (calc.payload.window_values # <<>> => response = ErrorResponse)

\* an update that moves the benefit to quarterly with four values was accepted
C16_Witness ==
    /\ lastOp = "update_benefit"
    /\ RequestHasWindowValues
    /\ Has(calc.payload, "frequency")
    /\ calc.payload.frequency = "quarterly"
    /\ Len(calc.payload.window_values) = 4
    /\ WindowValuesReadBack

\* C17: a stored benefit's window_values is unset or has the length its
\* frequency requires, and is unset for yearly and for cumulative benefits.
C17_StoredWindowValuesFitFrequency ==
    benefit # NoBenefit =>
        /\ (benefit.window_values # NoValues =>
               /\ benefit.frequency \in {"monthly", "quarterly", "semiannual"}
               /\ Len(benefit.window_values) = RequiredWindowValues(benefit.frequency))
        /\ (benefit.type = "cumulative" => benefit.window_values = NoValues)

\* C18: a stored cumulative benefit has no non-zero value, and a stored
\* standard or incremental benefit has no expected_value.
C18_ValueFieldsFitType ==
    benefit # NoBenefit =>
        /\ (benefit.type = "cumulative" => benefit.value \in {None, 0})
        /\ (benefit.type \in {"standard", "incremental"} => benefit.expected_value = None)


-----------------------------------------------------------------------------
(* The current window when the window of today is excluded                 *)

\* the windows of today's cycle the display keeps: no exclusion matches them
DisplayActiveWindows ==
    main_filter_frequency_windows(
        main_enumerate_in_cycle(
            main_compute_cycle_bounds(card, EffectiveMode(card, benefit), today),
            benefit.frequency, EffectiveMode(card, benefit)),
        exclusions)

\* the windows of today's cycle the usage sync keeps, as <<start, end, index>>
SyncActiveWindows ==
    crud_active_windows(
        crud_window_loop(
            crud_compute_cycle_bounds(card, EffectiveMode(card, benefit), today)[1], 1,
            crud_compute_cycle_bounds(card, EffectiveMode(card, benefit), today)[2],
            crud_months_map(benefit.frequency)),
        exclusions)

\* today's window is excluded from the display while other windows are active
DisplayWindowOfTodayExcluded ==
    /\ exclusions # {}
    /\ DisplayActiveWindows # <<>>
    /\ \A i \in 1..Len(DisplayActiveWindows) :
          ~(DisplayActiveWindows[i].start <= today /\ today < DisplayActiveWindows[i].end)

\* today's window is excluded from the sync while other windows are active
SyncWindowOfTodayExcluded ==
    /\ benefit.frequency # "yearly"
    /\ exclusions # {}
    /\ SyncActiveWindows # <<>>
    /\ \A i \in 1..Len(SyncActiveWindows) :
          ~(SyncActiveWindows[i][1] <= today /\ today < SyncActiveWindows[i][2])

-----------------------------------------------------------------------------
(* Card responses: expiration, per-benefit totals and card totals          *)

\* the loop over benefits at the end of build_card_response, keeping the
\* first benefit's totals out of the sums
RECURSIVE main_sum_totals_SkipFirst(_, _)
main_sum_totals_SkipFirst(totals, k) ==
    IF Len(totals) <= 1 THEN 0
    ELSE totals[Len(totals)][k] + main_sum_totals_SkipFirst(SubSeq(totals, 1, Len(totals) - 1), k)

\* the loop over benefits at the end of build_card_response: potential_value
\* (k = 1) and utilized_value (k = 2)
RECURSIVE main_sum_totals(_, _)
main_sum_totals(totals, k) ==
    IF totals = <<>> THEN 0
    ELSE totals[1][k] + main_sum_totals(Tail(totals), k)

\* CreditCardWithBenefits(...) of build_card_response; totals are the values
\* compute_benefit_totals returned in the loop
main_card_with_benefits(c, benefits, totals) ==
    [kind |-> "card",
     annual_fee |-> c.annual_fee,
     benefits |-> benefits,
     totals |-> totals,
     potential_value |-> main_sum_totals(totals, 1),
     utilized_value |-> main_sum_totals(totals, 2),
     net_position |-> main_sum_totals(totals, 2) - c.annual_fee]

\* build_card_response(session, card) from the reads on; a BenefitRead that
\* fails validation fails the request
main_card_response_of_reads(c, benefits, td) ==
    IF \E i \in 1..Len(benefits) : benefits[i] = ErrorResponse
    THEN ErrorResponse
    ELSE main_card_with_benefits(
             c, benefits,
             [i \in 1..Len(benefits) |-> main_compute_benefit_totals(benefits[i], td)])

\* build_card_response(session, card); entries are the card's benefits with
\* their redemptions and exclusions
main_build_card_response(c, entries, td) ==
    main_card_response_of_reads(
        c,
        [i \in 1..Len(entries) |->
            main_build_enriched_benefit(entries[i].benefit, c, entries[i].redemptions,
                                        entries[i].exclusions, td)],
        td)

SampleAnnualFee == 95
SampleExpiration == MkDate(2024, 6, 30)

ReadCards ==
    {[due_month |-> DefaultCard.due_month, due_day |-> DefaultCard.due_day,
      year_tracking_mode |-> m, annual_fee |-> SampleAnnualFee] : m \in Modes}

\* bodies of the request that created the benefit under study
ReadPayloads ==
    {p \in [type : BenefitTypes,
            frequency : Frequencies,
            value : {None, SampleValue},
            expected_value : {None, SampleExpectedValue},
            window_values : {NoValues} \cup {SampleWindowValues(f) : f \in Frequencies},
            window_tracking_mode : {NoMode, "calendar"},
            expiration_date : {None, SampleExpiration}] :
        /\ schemas_BenefitCreate_valid(p)
        /\ (p.type = "cumulative" => p.window_tracking_mode = NoMode /\ p.window_values = NoValues)}

\* the card's other benefits: none, or a yearly cumulative benefit with one
\* redemption
OtherBenefits(c) ==
    {<<>>,
     <<[benefit |-> crud_create_benefit(
                        [type |-> "cumulative", frequency |-> "yearly", value |-> None,
                         expected_value |-> SampleExpectedValue, window_values |-> NoValues,
                         window_tracking_mode |-> NoMode, expiration_date |-> None],
                        c, EmptyBag, {}, DefaultToday),
        redemptions |-> SetToBag({[amount |-> 25, occurred_on |-> MkDate(2024, 5, 15)]}),
        exclusions |-> {}]>>}

\* the card's benefits in the order list_benefits_for_card returns them
CardEntries ==
    <<[benefit |-> benefit, redemptions |-> redemptions, exclusions |-> exclusions]>>
        \o calc.others

InitRead ==
    /\ card \in ReadCards
    /\ today \in SampleDates
    /\ redemptions = EmptyBag
    /\ exclusions = {}
    /\ \E p \in ReadPayloads :
          benefit = crud_create_benefit(p, card, EmptyBag, {}, today)
    /\ calc \in {[phase |-> "card", others |-> o] : o \in OtherBenefits(card)}
    /\ lastOp = "add_benefit"
    /\ usedVia = "none"
    /\ response = main_build_enriched_benefit(benefit, card, redemptions, exclusions, today)

\* a completion written to the benefit's row without a request, as
\* test_incremental_manual_completion_after_prior_window_activity does:
\* is_used = True, used_at = today, session.commit()
StoreManualCompletion ==
    /\ benefit.type = "incremental"
    /\ benefit' = [benefit EXCEPT !.is_used = TRUE, !.used_at = today]
    /\ usedVia' = "stored"
    /\ lastOp' = "store_completion"
    /\ response' = NoResponse
    /\ UNCHANGED <<card, redemptions, exclusions, today, calc>>

\* GET /api/cards: list_cards, build_card_response with the card's totals
ListCardsWithTotals ==
    /\ response' = main_build_card_response(card, CardEntries, today)
    /\ lastOp' = "list_cards"
    /\ UNCHANGED <<card, benefit, redemptions, exclusions, today, usedVia, calc>>

NextRead ==
    \/ CreateBenefitRedemption
    \/ SetBenefitUsage
    \/ StoreManualCompletion
    \/ ListCardsWithTotals
    \/ AdvanceToday

SpecRead == InitRead /\ [][NextRead]_vars

\* C12: a read of the card leaves the stored benefit alone, and for an
\* incremental benefit whose redemptions are all dated before the current
\* window and whose is_used was written true with used_at in the current
\* window, the read reports is_used = true and current_window_total = 0.
C12_ReadKeepsStoredCompletion ==
    [][(/\ lastOp' = "list_cards"
        /\ benefit.type = "incremental"
        /\ usedVia = "stored"
        /\ benefit.is_used
        /\ CurrentWindow[1] <= benefit.used_at /\ benefit.used_at < CurrentWindow[2]
        /\ redemptions # EmptyBag
        /\ \A k \in BagToSet(redemptions) : k.occurred_on < CurrentWindow[1])
       => (/\ benefit' = benefit
           /\ response'.kind = "card"
           /\ response'.benefits[1].is_used
           /\ response'.benefits[1].current_window_total = 0)]_vars

\* the card was read after a completion was stored for a benefit redeemed in an
\* earlier window only
C12_Witness ==
    /\ lastOp = "list_cards"
    /\ response.kind = "card"
    /\ benefit.type = "incremental"
    /\ usedVia = "stored"
    /\ benefit.is_used
    /\ benefit.used_at = today
    /\ redemptions # EmptyBag
    /\ \A k \in BagToSet(redemptions) : k.occurred_on < CurrentWindow[1]
    /\ response.benefits[1].is_used
    /\ response.benefits[1].current_window_total = 0
    /\ response.benefits[1].redemption_total > 0


\* the last request read the card and got its benefits and totals
CardWasRead == lastOp = "list_cards" /\ response.kind = "card"

\* C13: a standard benefit whose stored expiration_date is before today and
\* whose is_used is false adds 0 to the card's potential_value, with or without
\* a window_tracking_mode of its own.
C13_ExpiredUnusedStandardAddsNoPotential ==
    (/\ CardWasRead
     /\ benefit.type = "standard"
     /\ benefit.expiration_date # None
     /\ benefit.expiration_date < today
     /\ ~benefit.is_used)
    => response.totals[1][1] = 0

\* C14: the expiration_date a read reports for a monthly, quarterly or
\* semiannual benefit is the day before the end of the window holding today,
\* whatever expiration_date the benefit stores.
C14_RecurringExpirationFollowsWindow ==
    (/\ CardWasRead
     /\ benefit.frequency \in {"monthly", "quarterly", "semiannual"})
    => \A w \in WindowsOfToday : response.benefits[1].expiration_date = MinusOneDay(w.end)

\* C19: potential_value and utilized_value of a card response are the sums of
\* what compute_benefit_totals gives for each of its benefits, and
\* net_position = utilized_value - annual_fee.
C19_CardTotalsAreSums ==
    CardWasRead =>
        LET n == Len(response.benefits)
            Totals(i) == main_compute_benefit_totals(response.benefits[i], today)
        IN  /\ n \in {1, 2}
            /\ response.potential_value
                   = Totals(1)[1] + (IF n = 2 THEN Totals(2)[1] ELSE 0)
            /\ response.utilized_value
                   = Totals(1)[2] + (IF n = 2 THEN Totals(2)[2] ELSE 0)
            /\ response.net_position = response.utilized_value - card.annual_fee

\* a card of two benefits, both with something utilized
C19_Witness ==
    /\ CardWasRead
    /\ Len(response.benefits) = 2
    /\ response.totals[1][2] > 0
    /\ response.totals[2][2] > 0
    /\ response.totals[1][1] # response.totals[2][1]
    /\ response.utilized_value = response.totals[1][2] + response.totals[2][2]
    /\ response.net_position < 0

\* the benefit read is not expired on the day of the read
NotExpired(read) == read.expiration_date = None \/ read.expiration_date >= today

\* potential and utilized of a benefit read as the valuation rules state them
StatedTotals(read) ==
    LET potential == Max(read.cycle_target_value - read.missed_window_value, 0)
    IN  CASE read.type = "standard" ->
               <<potential, IF read.is_used THEN potential ELSE 0>>
          [] read.type = "incremental" ->
               <<potential, Min(read.cycle_redemption_total, potential)>>
          [] read.type = "cumulative" /\ read.expected_value # None ->
               <<read.expected_value, Min(read.cycle_redemption_total, read.expected_value)>>
          [] read.type = "cumulative" /\ read.expected_value = None ->
               <<read.cycle_redemption_total, read.cycle_redemption_total>>

\* C20: for a benefit that is not expired compute_benefit_totals returns
\* potential = max(cycle_target - missed, 0) for standard and incremental, with
\* utilized = potential if used else 0 (standard) or min(cycle_total, potential)
\* (incremental); potential = expected_value and utilized = min(cycle_total,
\* expected_value) for cumulative with expected_value; potential = utilized =
\* cycle_total for cumulative without.
C20_TotalsFollowValuationRules ==
    CardWasRead =>
        \A i \in 1..Len(response.benefits) :
            NotExpired(response.benefits[i])
                => response.totals[i] = StatedTotals(response.benefits[i])

\* a read of an unexpired incremental benefit with a missed window and a
\* redemption, next to a capped cumulative benefit
C20_Witness ==
    /\ CardWasRead
    /\ Len(response.benefits) = 2
    /\ response.benefits[1].type = "incremental"
    /\ NotExpired(response.benefits[1])
    /\ response.benefits[1].missed_window_value > 0
    /\ response.benefits[1].cycle_redemption_total > 0
    /\ response.totals[1][2] = response.benefits[1].cycle_redemption_total
    /\ response.totals[2] = <<SampleExpectedValue, 25>>


-----------------------------------------------------------------------------
(* Cards and the benefits they own: the creditcard and benefit tables      *)

MaxCardRows == 3
MaxBenefitRows == 3

\* the id SQLite gives a new row of an INTEGER PRIMARY KEY table: one more than
\* the largest id in the table
database_next_id(ids) == IF ids = {} THEN 1 ELSE (CHOOSE i \in ids : \A j \in ids : j <= i) + 1

\* the tables; foreign_keys is whether the SQLite build enforces
\* benefit.credit_card_id -> creditcard.id (the engine sets no PRAGMA)
InitCards ==
    /\ calc \in {[phase |-> "tables", cards |-> {}, benefits |-> {}, foreign_keys |-> fk] :
                    fk \in BOOLEAN}
    /\ card = DefaultCard
    /\ today = DefaultToday
    /\ benefit = NoBenefit
    /\ redemptions = EmptyBag
    /\ exclusions = {}
    /\ lastOp = "init_db"
    /\ usedVia = "none"
    /\ response = NoResponse

\* POST /api/cards: crud.create_credit_card
CreateCard ==
    /\ Cardinality(calc.cards) < MaxCardRows
    /\ database_next_id(calc.cards) <= MaxCardRows
    /\ calc' = [calc EXCEPT !.cards = @ \cup {database_next_id(calc.cards)}]
    /\ response' = [kind |-> "created", id |-> database_next_id(calc.cards)]
    /\ lastOp' = "create_card"
    /\ UNCHANGED <<card, benefit, redemptions, exclusions, today, usedVia>>

\* POST /api/cards/{card_id}/benefits: require_card, crud.create_benefit
AddBenefitToCard ==
    /\ Cardinality(calc.benefits) < MaxBenefitRows
    /\ database_next_id({b.id : b \in calc.benefits}) <= MaxBenefitRows
    /\ \E card_id \in calc.cards :
          calc' = [calc EXCEPT !.benefits =
                      @ \cup {[id |-> database_next_id({b.id : b \in calc.benefits}),
                               credit_card_id |-> card_id]}]
    /\ response' = [kind |-> "created", id |-> database_next_id({b.id : b \in calc.benefits})]
    /\ lastOp' = "add_benefit"
    /\ UNCHANGED <<card, benefit, redemptions, exclusions, today, usedVia>>

\* delete_credit_card(session, card): session.delete(card), session.commit();
\* with foreign keys enforced the DELETE of a card that benefits refer to
\* raises IntegrityError
crud_delete_credit_card(tables, card_id) ==
    IF tables.foreign_keys /\ \E b \in tables.benefits : b.credit_card_id = card_id
    THEN [raised |-> TRUE, tables |-> tables]
    ELSE [raised |-> FALSE, tables |-> [tables EXCEPT !.cards = @ \ {card_id}]]

\* DELETE /api/cards/{card_id}: require_card, crud.delete_credit_card
DeleteCard ==
    /\ \E card_id \in calc.cards :
          \E deleted \in {crud_delete_credit_card(calc, card_id)} :
             /\ calc' = deleted.tables
             /\ response' = IF deleted.raised THEN ErrorResponse
                            ELSE [kind |-> "deleted", id |-> card_id]
    /\ lastOp' = "delete_card"
    /\ UNCHANGED <<card, benefit, redemptions, exclusions, today, usedVia>>

\* DELETE /api/benefits/{benefit_id}: require_benefit, session.delete(benefit)
DeleteBenefitRow ==
    /\ \E b \in calc.benefits : calc' = [calc EXCEPT !.benefits = @ \ {b}]
    /\ response' = NoResponse
    /\ lastOp' = "delete_benefit"
    /\ UNCHANGED <<card, benefit, redemptions, exclusions, today, usedVia>>

NextCards ==
    \/ CreateCard
    \/ AddBenefitToCard
    \/ DeleteCard
    \/ DeleteBenefitRow

SpecCards == InitCards /\ [][NextCards]_vars

\* C21: after a card is deleted no benefit with the deleted card's id as
\* credit_card_id remains in storage.
C21_DeleteCardCascadesToBenefits ==
    (lastOp = "delete_card" /\ response.kind = "deleted")
        => \A b \in calc.benefits : b.credit_card_id # response.id

-----------------------------------------------------------------------------
(* The window of a benefit under stored window deletions: the usage sync    *)
(* of crud.py and the metrics of main.py applied to the same benefit, card, *)
(* deletions and date.                                                      *)

MaxWindowDeletions == 2

WindowDeletionVariants == {"full", "dates", "index", "label"}

\* the windows a client can have seen in a read of the benefit: the window that
\* held the date of the read, in the cycle of that date
WindowsSeenBy(c, b) ==
    UNION {WindowsHolding(
               main_enumerate_in_cycle(
                   main_compute_cycle_bounds(c, EffectiveMode(c, b), d),
                   b.frequency, EffectiveMode(c, b)),
               d) : d \in SampleDates}

\* the stored deletions of a benefit: rows of POST /api/benefits/{id}/window-deletions,
\* one per window_start and window_end
WindowDeletionSets(c, b) ==
    LET payloads == {ExclusionPayload(w, v) : w \in WindowsSeenBy(c, b), v \in WindowDeletionVariants}
    IN  {es \in SUBSET payloads :
            /\ Cardinality(es) <= MaxWindowDeletions
            /\ \A e1, e2 \in es :
                  (e1.window_start = e2.window_start /\ e1.window_end = e2.window_end) => e1 = e2}

\* the windows _resolve_window_bounds chooses among: the cycle for a yearly
\* benefit (no deletion is looked at), else the windows no deletion matches
crud_windows_kept_in_cycle(b, excl, cycle) ==
    IF b.frequency = "yearly" \/ crud_months_map(b.frequency) = 0
    THEN <<<<cycle[1], cycle[2], 1>>>>
    ELSE crud_active_windows(
             crud_window_loop(cycle[1], 1, cycle[2], crud_months_map(b.frequency)), excl)

crud_windows_kept(c, b, excl, reference) ==
    crud_windows_kept_in_cycle(b, excl, crud_compute_cycle_bounds(c, EffectiveMode(c, b), reference))

InitWin ==
    /\ card \in Cards
    /\ today \in SampleDates
    /\ redemptions = EmptyBag
    /\ \E p \in CreatePayloads :
          /\ p.expected_value = None
          /\ benefit = crud_create_benefit(p, card, EmptyBag, {}, today)
    /\ exclusions \in WindowDeletionSets(card, benefit)
    /\ lastOp = "create_exclusion"
    /\ usedVia = "none"
    /\ response = NoResponse
    /\ calc = [phase |-> "stored"]

\* crud._resolve_window_bounds(session, card, benefit, today)
ResolveWindowBounds ==
    /\ calc' = [phase |-> "sync",
                kept |-> crud_windows_kept(card, benefit, exclusions, today),
                window |-> crud_resolve_window_bounds(card, benefit, exclusions, today)]
    /\ lastOp' = "resolve_window_bounds"
    /\ UNCHANGED <<card, benefit, redemptions, exclusions, today, usedVia, response>>

main_cycle_target_of_context(b, context) ==
    main_calculate_cycle_target_value(
        b, context.window_count, context.active_window_indexes, context.total_window_count)

\* main.gather_benefit_metrics(session, card, [benefit]) and the cycle target
\* build_card_response computes from its context
GatherBenefitMetrics ==
    /\ \E context \in {main_gather_benefit_metrics(card, benefit, redemptions, exclusions, today)} :
          calc' = [phase |-> "metrics",
                   context |-> context,
                   cycle_target_value |-> main_cycle_target_of_context(benefit, context)]
    /\ lastOp' = "gather_benefit_metrics"
    /\ UNCHANGED <<card, benefit, redemptions, exclusions, today, usedVia, response>>

NextWin == ResolveWindowBounds \/ GatherBenefitMetrics

SpecWin == InitWin /\ [][NextWin]_vars

\* the windows of today's cycle, with their labels
CycleWindows ==
    main_enumerate_in_cycle(
        main_compute_cycle_bounds(card, EffectiveMode(card, benefit), today),
        benefit.frequency, EffectiveMode(card, benefit))

\* some deletion of the benefit matches the window by index, by dates or by label
DeletionMatches(w) ==
    \E e \in exclusions :
        \/ (e.window_index # None /\ e.window_index = w.index)
        \/ (e.window_start = w.start /\ e.window_end = w.end)
        \/ (e.window_label # NoLabel /\ e.window_label = w.label)

SeqRange(s) == {s[i] : i \in 1..Len(s)}

\* C22: in the usage sync of crud.py and in the metrics of main.py alike, a
\* window of the cycle is dropped from the active windows if and only if some
\* stored deletion matches it by window index, by window_start and window_end,
\* or by window label.
C22_DeletionMatchesByIndexDatesOrLabel ==
    /\ (calc.phase = "sync" =>
           \A i \in 1..Len(CycleWindows) :
              (<<CycleWindows[i].start, CycleWindows[i].end, CycleWindows[i].index>>
                   \notin SeqRange(calc.kept))
                 <=> DeletionMatches(CycleWindows[i]))
    /\ (calc.phase = "metrics" =>
           \A i \in 1..Len(CycleWindows) :
              (CycleWindows[i].index \notin SeqRange(calc.context.active_window_indexes))
                 <=> DeletionMatches(CycleWindows[i]))

-----------------------------------------------------------------------------
(* The value of missed windows in a read of the benefit                    *)

\* the active windows of today's cycle that precede the window of the read
ActiveWindowsBefore(window_index) ==
    LET Before(w) == \E i, j \in 1..Len(DisplayActiveWindows) :
                        /\ DisplayActiveWindows[i] = w
                        /\ DisplayActiveWindows[j].index = window_index
                        /\ i < j
    IN  SelectSeq(DisplayActiveWindows, Before)

\* the start of the active window with that index
ActiveWindowStart(window_index) ==
    (CHOOSE w \in SeqRange(DisplayActiveWindows) : w.index = window_index).start

\* E: the targets of the active windows before the window of the read
ExpectedBefore(read) ==
    main_sum_window_values(SeqOfIndexes(ActiveWindowsBefore(read.current_window_index)),
                           read.window_values,
                           IF read.value # None THEN read.value ELSE 0)

\* P: the amounts redeemed in the cycle before the window of the read starts
RedeemedBefore(read) ==
    crud_redemption_summary(
        redemptions,
        main_compute_cycle_bounds(card, EffectiveMode(card, benefit), today)[1],
        ActiveWindowStart(read.current_window_index))[1]

BenefitWasRead ==
    /\ lastOp = "list_cards"
    /\ response.kind = "benefit"

\* C23: a read of a standard or incremental benefit reports missed_window_value
\* = max(0, E - P), E the targets of the active windows before the current
\* window and P the amounts redeemed in the cycle before the current window
\* starts; redemptions dated in the current window or later do not reduce it.
C23_MissedValueCountsEarlierRedemptionsOnly ==
    (BenefitWasRead /\ response.type \in {"standard", "incremental"}) =>
        response.missed_window_value = Max(0, ExpectedBefore(response) - RedeemedBefore(response))

-----------------------------------------------------------------------------
(* The cycle target under window deletions                                 *)

\* the indexes of the windows of today's cycle that no deletion matches
ActiveIndexes ==
    SeqOfIndexes(SelectSeq(CycleWindows, LAMBDA w : ~DeletionMatches(w)))

\* the override at the window's original index when present, else value, summed
\* over the active windows
ActiveWindowsTarget ==
    main_sum_window_values(ActiveIndexes, benefit.window_values,
                           IF benefit.value # None THEN benefit.value ELSE 0)

\* C24: for a standard or incremental benefit and every set of deletions,
\* one that removes every window included, cycle_target_value is the sum over
\* the active windows only of the override at the window's original index,
\* else of value; removed windows add nothing.
C24_CycleTargetSumsActiveWindowsOnly ==
    (calc.phase = "metrics" /\ benefit.type \in {"standard", "incremental"}) =>
        calc.cycle_target_value = ActiveWindowsTarget

-----------------------------------------------------------------------------
(* The window the sync judges and the window the display totals            *)

\* <<start, end, index>> of the current window of gather_benefit_metrics
DisplayWindow ==
    LET context == main_gather_benefit_metrics(card, benefit, redemptions, exclusions, today)
    IN  <<context.window_start, context.window_end, context.window_index>>

\* C27: for every benefit, card, set of deletions and today, the window the
\* usage sync judges is_used on and the current window of the display totals
\* are the same window: same start, same end, same index.
C27_SyncWindowIsDisplayWindow ==
    calc.phase = "sync" => calc.window = DisplayWindow

-----------------------------------------------------------------------------
(* A rejected update                                                       *)

\* C25: a benefit update rejected with a validation error leaves the stored
\* benefit unchanged in every field, whatever other fields the request set.
C25_RejectedUpdateChangesNothing ==
    [][(lastOp' = "update_benefit" /\ response' = ErrorResponse) => benefit' = benefit]_vars

\* a request that names a new value (or a new type) together with window_values
\* of the wrong length passed the body's validator and was rejected by crud
C25_Witness ==
    /\ lastOp = "update_benefit"
    /\ response = ErrorResponse
    /\ benefit # NoBenefit
    /\ schemas_BenefitUpdate_valid(calc.payload)
    /\ Has(calc.payload, "window_values")
    /\ \/ (Has(calc.payload, "value") /\ calc.payload.value # benefit.value)
       \/ (Has(calc.payload, "type") /\ calc.payload.type # benefit.type)

-----------------------------------------------------------------------------
(* A stop between the two commits of create_benefit_redemption             *)

\* crud.create_benefit_redemption stopped after its first session.commit():
\* the redemption is stored, sync_benefit_usage_status has not run
CreateBenefitRedemptionStopped ==
    /\ BagCardinality(redemptions) < MaxRedemptions
    /\ \E amount \in Amounts, occurred_on \in SampleDates :
          redemptions' = redemptions (+) SetToBag({[amount |-> amount, occurred_on |-> occurred_on]})
    /\ lastOp' = "create_redemption_stopped"
    /\ response' = NoResponse
    /\ UNCHANGED <<card, benefit, exclusions, today, usedVia, calc>>

NextStop ==
    \/ CreateBenefitRedemption
    \/ CreateBenefitRedemptionStopped
    \/ ListCards

SpecStop == Init /\ [][NextStop]_vars

\* C26: when create_benefit_redemption stops between its two commits, the
\* first read of the benefit afterwards reports the is_used the sync would
\* have stored for the ledger and the current window.
C26_ReadAfterStopReportsSyncedFlag ==
    [][(lastOp = "create_redemption_stopped" /\ lastOp' = "list_cards")
       => response'.is_used
            = crud_sync_benefit_usage_status(benefit, card, redemptions, exclusions, today).is_used]_vars

-----------------------------------------------------------------------------
(* The crud operations on one benefit: update with a change of type, usage, *)
(* redemptions, sync                                                        *)

\* request bodies of PUT /api/benefits/{id} that set is_used, type or both
TypeAndUsagePayloads ==
    {[is_used |-> u] : u \in BOOLEAN}
    \cup {[type |-> t] : t \in BenefitTypes}
    \cup {[type |-> t, is_used |-> u] : t \in BenefitTypes, u \in BOOLEAN}

\* PUT /api/benefits/{id}: crud.update_benefit with such a body
UpdateBenefitTypeAndUsage ==
    /\ \E payload \in TypeAndUsagePayloads :
          /\ schemas_BenefitUpdate_valid(payload)
          /\ \E updated \in {crud_update_benefit_row(benefit, payload, today)} :
                IF updated.raised
                THEN /\ benefit' = benefit
                     /\ usedVia' = usedVia
                     /\ response' = ErrorResponse
                ELSE /\ benefit' = crud_sync_benefit_usage_status(
                                       updated.row, card, redemptions, exclusions, today)
                     /\ usedVia' = IF benefit'.is_used = benefit.is_used THEN usedVia
                                   ELSE IF ~benefit'.is_used
                                   THEN (IF usedVia = "manual" /\ updated.row.is_used
                                         THEN "overwritten" ELSE "none")
                                   ELSE IF updated.row.is_used THEN "manual" ELSE "sync"
                     /\ response' = main_build_enriched_benefit(
                                        benefit', card, redemptions, exclusions, today)
    /\ lastOp' = "update_benefit"
    /\ UNCHANGED <<card, redemptions, exclusions, today, calc>>

NextCrud ==
    \/ UpdateBenefitTypeAndUsage
    \/ SetBenefitUsage
    \/ CreateBenefitRedemption
    \/ UpdateBenefitRedemption
    \/ DeleteBenefitRedemption
    \/ SyncBenefitUsageStatus

SpecCrud == Init /\ [][NextCrud]_vars

\* C28: in every state the crud operations reach, the benefit's used_at is
\* set if and only if its is_used is true.
C28_UsedAtSetIffUsed ==
    benefit.used_at # None <=> benefit.is_used

\* an update has marked the benefit used, with redemptions in the ledger
C28_Witness ==
    /\ lastOp = "update_benefit"
    /\ usedVia = "manual"
    /\ benefit.is_used
    /\ benefit.used_at = today
    /\ redemptions # EmptyBag

-----------------------------------------------------------------------------
(* compute_benefit_totals over the values a BenefitRead can hold           *)

SampleTotals == {0, 25, 75, 125}
SampleTargets == {None, 0, 50, 100}
SampleMissed == {0, 50, 150}

\* the fields of a BenefitRead that compute_benefit_totals reads, within the
\* constraints of the schema (amounts >= 0)
BenefitReads ==
    [kind : {"benefit"},
     type : BenefitTypes,
     is_used : BOOLEAN,
     value : {0, SampleValue},
     expected_value : {None, 0, SampleExpectedValue},
     cycle_redemption_total : SampleTotals,
     cycle_target_value : SampleTargets,
     missed_window_value : SampleMissed,
     expiration_date : {None, MkDate(2024, 4, 30), SampleExpiration}]

InitTotals ==
    /\ card = DefaultCard
    /\ today = DefaultToday
    /\ benefit = NoBenefit
    /\ redemptions = EmptyBag
    /\ exclusions = {}
    /\ lastOp = "build_benefit_read"
    /\ usedVia = "none"
    /\ response \in BenefitReads
    /\ calc = [phase |-> "read"]

\* compute_benefit_totals(benefit_read)
ComputeBenefitTotals ==
    /\ calc.phase = "read"
    /\ \E totals \in {main_compute_benefit_totals(response, today)} :
          calc' = [phase |-> "totals", potential |-> totals[1], utilized |-> totals[2]]
    /\ lastOp' = "compute_benefit_totals"
    /\ UNCHANGED <<card, benefit, redemptions, exclusions, today, usedVia, response>>

NextTotals == ComputeBenefitTotals

SpecTotals == InitTotals /\ [][NextTotals]_vars

\* C29: for a benefit that is not expired, compute_benefit_totals returns
\* 0 <= utilized <= potential, whatever the type, the cycle total, the target,
\* the missed value and is_used.
C29_UtilizedWithinPotential ==
    (calc.phase = "totals" /\ NotExpired(response)) =>
        (0 <= calc.utilized /\ calc.utilized <= calc.potential)

\* an incremental benefit redeemed beyond what is left of its target
C29_Witness ==
    /\ calc.phase = "totals"
    /\ NotExpired(response)
    /\ response.type = "incremental"
    /\ response.missed_window_value > 0
    /\ calc.potential > 0
    /\ response.cycle_redemption_total > calc.potential
    /\ calc.utilized = calc.potential

-----------------------------------------------------------------------------
(* BackupService, backup.py: the task _run on the event loop, requests that *)
(* register a change from the worker threads of their handlers, a backup    *)
(* asked for by hand, and the clock.  Times are whole hours; the backup     *)
(* settings are configured and every backup succeeds.                       *)

MaxClock == 3
MaxChanges == 2

\* timedelta(hours=1)
OneHour == 1

\* BackupService.__init__ and start(): the task waits for the event
BackupIdle ==
    [phase |-> "backup",
     now |-> 0,
     event |-> FALSE,
     last_change |-> None,
     next_run |-> None,
     run_pc |-> "wait_event",
     change |-> None,
     due_at |-> None,
     request_pc |-> "idle",
     manual_pc |-> "idle",
     registered |-> 0,
     last_registered |-> None,
     unsaved |-> FALSE,
     early |-> FALSE]

InitBackup ==
    /\ calc = BackupIdle
    /\ card = DefaultCard
    /\ today = DefaultToday
    /\ benefit = NoBenefit
    /\ redemptions = EmptyBag
    /\ exclusions = {}
    /\ lastOp = "start"
    /\ usedVia = "none"
    /\ response = NoResponse

BackupStep(op, after) ==
    /\ calc' = after
    /\ lastOp' = op
    /\ UNCHANGED <<card, benefit, redemptions, exclusions, today, usedVia, response>>

\* register_change, first statement: self._last_change = datetime.utcnow()
BackupService_register_change_store ==
    /\ calc.request_pc = "idle"
    /\ calc.registered < MaxChanges
    /\ calc.now + OneHour <= MaxClock
    /\ BackupStep("register_change",
                  [calc EXCEPT !.last_change = calc.now,
                               !.request_pc = "set_event",
                               !.registered = @ + 1,
                               !.last_registered = calc.now,
                               !.unsaved = TRUE])

\* register_change, second statement: self._event.set()
BackupService_register_change_set ==
    /\ calc.request_pc = "set_event"
    /\ BackupStep("register_change_set",
                  [calc EXCEPT !.event = TRUE, !.request_pc = "idle"])

\* _run: await self._event.wait(); self._event.clear()
BackupService_run_wait_event ==
    /\ calc.run_pc = "wait_event"
    /\ calc.event
    /\ BackupStep("run_wait_event",
                  [calc EXCEPT !.event = FALSE, !.run_pc = "load_config"])

\* _run: config = await asyncio.to_thread(self._load_config)
BackupService_run_load_config ==
    /\ calc.run_pc = "load_config"
    /\ BackupStep("run_load_config", [calc EXCEPT !.run_pc = "read_change"])

\* _run: change = self._last_change; without a change _next_run = None and
\* the task waits for the event again, else due_at = change + timedelta(hours=1)
BackupService_run_read_change ==
    /\ calc.run_pc = "read_change"
    /\ BackupStep("run_read_change",
                  IF calc.last_change = None
                  THEN [calc EXCEPT !.change = None, !.due_at = None,
                                    !.next_run = None, !.run_pc = "wait_event"]
                  ELSE [calc EXCEPT !.change = calc.last_change,
                                    !.due_at = calc.last_change + OneHour,
                                    !.run_pc = "check_due"])

\* _run: now = datetime.utcnow(); when due, _perform_backup starts in a worker
\* thread and exports the database; else _next_run = due_at and the task
\* waits for the event with a timeout
BackupService_run_check_due ==
    /\ calc.run_pc = "check_due"
    /\ BackupStep("run_check_due",
                  IF calc.due_at - calc.now <= 0
                  THEN [calc EXCEPT !.run_pc = "perform_backup",
                                    !.unsaved = FALSE,
                                    !.early = @ \/ (calc.last_registered # None
                                                    /\ calc.now < calc.last_registered + OneHour)]
                  ELSE [calc EXCEPT !.next_run = calc.due_at, !.run_pc = "wait_timeout"])

\* _run: asyncio.wait_for(self._event.wait(), timeout=wait_seconds) returns;
\* self._event.clear()
BackupService_run_woken ==
    /\ calc.run_pc = "wait_timeout"
    /\ calc.event
    /\ BackupStep("run_woken", [calc EXCEPT !.event = FALSE, !.run_pc = "load_config"])

\* _run: asyncio.TimeoutError, continue
BackupService_run_timeout ==
    /\ calc.run_pc = "wait_timeout"
    /\ ~calc.event
    /\ calc.now >= calc.due_at
    /\ BackupStep("run_timeout", [calc EXCEPT !.run_pc = "load_config"])

\* _run: _perform_backup returned; finally: _last_change = None, _next_run = None; break
BackupService_run_backup_done ==
    /\ calc.run_pc = "perform_backup"
    /\ BackupStep("run_backup_done",
                  [calc EXCEPT !.last_change = None, !.next_run = None,
                               !.change = None, !.due_at = None,
                               !.run_pc = "wait_event"])

\* run_backup_now: the configuration is loaded and _perform_backup starts in a
\* worker thread and exports the database
BackupService_run_backup_now_start ==
    /\ calc.manual_pc = "idle"
    /\ BackupStep("run_backup_now",
                  [calc EXCEPT !.manual_pc = "perform_backup", !.unsaved = FALSE])

\* run_backup_now: _perform_backup returned; _last_change = None,
\* _next_run = None, _event.clear()
BackupService_run_backup_now_done ==
    /\ calc.manual_pc = "perform_backup"
    /\ BackupStep("run_backup_now_done",
                  [calc EXCEPT !.last_change = None, !.next_run = None,
                               !.event = FALSE, !.manual_pc = "idle"])

\* datetime.utcnow() moves on by an hour
BackupClockTick ==
    /\ calc.now < MaxClock
    /\ BackupStep("tick", [calc EXCEPT !.now = @ + 1])

BackupTaskStep ==
    \/ BackupService_run_wait_event
    \/ BackupService_run_load_config
    \/ BackupService_run_read_change
    \/ BackupService_run_check_due
    \/ BackupService_run_woken
    \/ BackupService_run_timeout
    \/ BackupService_run_backup_done

NextBackup ==
    \/ BackupService_register_change_store
    \/ BackupService_register_change_set
    \/ BackupTaskStep
    \/ BackupService_run_backup_now_start
    \/ BackupService_run_backup_now_done
    \/ BackupClockTick

SpecBackup == InitBackup /\ [][NextBackup]_vars

\* the event loop runs a task that can run, a worker thread runs to its end,
\* and the clock moves on; requests come when they come
SpecBackupFair ==
    /\ SpecBackup
    /\ WF_vars(BackupTaskStep)
    /\ WF_vars(BackupService_register_change_set)
    /\ WF_vars(BackupService_run_backup_now_done)
    /\ WF_vars(BackupClockTick)

\* every registered change is followed by a backup whose export starts after it
BackupFollowsEveryChange == calc.unsaved ~> ~calc.unsaved

\* no backup of the task has started within an hour of the latest change
NoEarlyScheduledBackup == [](~calc.early)

\* C30: with the settings configured and the task running, every call of
\* register_change is eventually followed by a backup whose export starts
\* after the call, also when the call comes while a backup runs in the worker
\* thread; and no scheduled backup starts earlier than one hour after the
\* most recent registered change.
C30_NoChangeLostAndNoEarlyBackup ==
    BackupFollowsEveryChange /\ NoEarlyScheduledBackup

=============================================================================
